---- MODULE Spec2Model ----
(***************************************************************************)
(* A model of the EDA helper routines of preprocessing-gradient.           *)
(*                                                                         *)
(* The state is the caller's table (a pandas DataFrame object) together    *)
(* with a record of the last call made on it: the routine, its arguments,  *)
(* the table as it was before the call, the value returned and the error   *)
(* raised.  Every routine is one action.  probe holds the input and output  *)
(* of the summary computation on a column given by its row and null        *)
(* counts, for tables too long to write out.                               *)
(*                                                                         *)
(* A table is [index |-> row labels, cols |-> sequence of columns]; a      *)
(* column is [name, dtype, vals] with vals aligned to index.  A cell is    *)
(* [k, v, s]: k = "nan" (np.nan), "none" (None, in object columns), "num"  *)
(* (the float64 v) or "str" (the string s).  Numbers are float64           *)
(* throughout, a double being [neg, m, e] for (-1)^neg * m * 2^e.          *)
(***************************************************************************)
EXTENDS Integers, Sequences, FiniteSets, TLC

VARIABLES df, op, args, pre, ret, err, probe

vars == <<df, op, args, pre, ret, err, probe>>

-----------------------------------------------------------------------------
(* Bounds of the model *)

MaxRows == 3

\* long columns: null counts up to MaxNulls in tables of LongStep * (1..MaxLong) rows
MaxNulls == 3

MaxLong == 8

-----------------------------------------------------------------------------
(* Cells, columns, tables *)

\* a double: the number (-1)^neg * m * 2^e, m being a natural number that is
\* odd and has at most 53 bits, held as a sequence of digits (see the float64
\* arithmetic below); zero has m = <<>> and e = 0 and no sign, NaN and the two
\* infinities have m = <<>> too. The exponent is not bounded: no number of
\* the model is near the ends of the range of float64
Dbl(neg, m, e) == [neg |-> neg, m |-> m, e |-> e]

FZero == Dbl(FALSE, <<>>, 0)

\* not a number
FNaN == Dbl(FALSE, <<>>, 1)

\* inf and -inf
FInf(neg) == Dbl(neg, <<>>, 2)

\* np.nan
NaN == [k |-> "nan", v |-> FNaN, s |-> ""]

\* None, as an object column holds it
None == [k |-> "none", v |-> FNaN, s |-> ""]

Str(x) == [k |-> "str", v |-> FNaN, s |-> x]

\* the cell of the double x
Val(x) == IF x = FNaN THEN NaN ELSE [k |-> "num", v |-> x, s |-> ""]

\* pd.isna of a cell
isna(c) == c.k \in {"nan", "none"}

Column(name, dtype, vals) == [name |-> name, dtype |-> dtype, vals |-> vals]

Table(index, cols) == [index |-> index, cols |-> cols]

NRows(t) == Len(t.index)

NCols(t) == Len(t.cols)

ColNames(t) == [j \in 1..NCols(t) |-> t.cols[j].name]

Range(s) == {s[i] : i \in DOMAIN s}

\* DataFrame.empty: some axis has length zero
IsEmpty(t) == NRows(t) = 0 \/ NCols(t) = 0

\* the subsequence of s at the positions in K, in order
KeepIdx(s, K) ==
    LET F[i \in 0..Len(s)] ==
            IF i = 0 THEN <<>>
            ELSE IF i \in K THEN Append(F[i - 1], s[i]) ELSE F[i - 1]
    IN  F[Len(s)]

\* df.drop(columns=names)
DropColumns(t, names) ==
    [t EXCEPT !.cols = KeepIdx(t.cols, {j \in 1..NCols(t) : t.cols[j].name \notin names})]

\* df[mask] for a boolean row mask given as the set of selected positions
TakeRows(t, K) ==
    Table(KeepIdx(t.index, K),
          [j \in 1..NCols(t) |-> [t.cols[j] EXCEPT !.vals = KeepIdx(t.cols[j].vals, K)]])

\* series.isna().sum()
NaCount(vals) == Cardinality({i \in DOMAIN vals : isna(vals[i])})

\* row.isna().sum() of the row at position i
RowNaCount(t, i) == Cardinality({j \in 1..NCols(t) : isna(t.cols[j].vals[i])})

-----------------------------------------------------------------------------
(* custom_drop_na *)

\* a threshold argument: the value n / d, passed as a float or as an int
Thr(isfloat, n, d) == [isfloat |-> isfloat, n |-> n, d |-> d]

\* a zero threshold let through
BadThreshold_zero_ok(x) == ~x.isfloat \/ x.n < 0

\* not isinstance(x, float) or x <= 0
BadThreshold(x) == ~x.isfloat \/ x.n <= 0

\* The two ratio tests below compare the exact fractions na / nr_of_rows and
\* thr.n / thr.d.  The code compares the doubles nearest to them; rounding
\* keeps the order, and two different fractions of denominators this small
\* are never rounded to the same double, so the outcome is the same.

\* a strict comparison in place of >=
ColRatioHit_strict(na, nr_of_rows, thr) == na * thr.d > thr.n * nr_of_rows

\* col_ratio >= drop_col_threshold, col_ratio = nr_of_na_in_col / nr_of_rows
ColRatioHit(na, nr_of_rows, thr) == na * thr.d >= thr.n * nr_of_rows

\* the loop over df.columns collecting cols_dropped
ColsDropped(t, thr) ==
    KeepIdx(ColNames(t),
            {j \in 1..NCols(t) : ColRatioHit(NaCount(t.cols[j].vals), NRows(t), thr)})

\* a non-strict comparison in place of >
f1_nonstrict(row_na_count, nr_of_columns, thr) ==
    IF nr_of_columns = 0 THEN FALSE
    ELSE row_na_count * thr.d >= thr.n * nr_of_columns

\* f1(row): row_ratio > drop_row_threshold, row_ratio = row_na_count / nr_of_columns;
\* on a frame without columns apply() reduces over an empty row: 0/0 is nan
\* and the comparison is False
f1(row_na_count, nr_of_columns, thr) ==
    IF nr_of_columns = 0 THEN FALSE
    ELSE row_na_count * thr.d > thr.n * nr_of_columns

\* mask = df.apply(f1, axis=1), as the set of row positions where it is True
RowMask(t, thr) ==
    {i \in 1..NRows(t) : f1(RowNaCount(t, i), NCols(t), thr)}

\* the mask applied without negation
KeptRows_inverted(t, mask) == TakeRows(t, mask)

\* df = df[~mask]
KeptRows(t, mask) == TakeRows(t, (1..NRows(t)) \ mask)

\* dropped_rows = df[mask]
DroppedRows(t, mask) == TakeRows(t, mask)

\* the validation of custom_drop_na: the error raised, "" when none
DropValidate(t, a) ==
    IF ~a.is_frame THEN "TypeError:df"
    ELSE IF IsEmpty(t) THEN "ValueError:empty"
    ELSE IF BadThreshold(a.drop_col_threshold) THEN "ValueError:drop_col_threshold"
    ELSE IF BadThreshold(a.drop_row_threshold) THEN "ValueError:drop_row_treshold"
    ELSE IF a.cols_to_drop = "None" /\ ~a.drop_col /\ ~a.drop_row THEN "Exception:nothing"
    ELSE IF a.cols_to_drop = "str" THEN "TypeError:cols_to_drop"
    ELSE ""

NoResult == [none |-> TRUE]

\* a variant in which drop_col and drop_row switch the two pruning steps
custom_drop_na_switched(t, a) ==
    LET e            == DropValidate(t, a)
        cols_dropped == IF a.drop_col THEN ColsDropped(t, a.drop_col_threshold) ELSE <<>>
        pruned       == DropColumns(t, Range(cols_dropped))
        mask         == IF a.drop_row THEN RowMask(pruned, a.drop_row_threshold) ELSE {}
    IN  IF e # ""
        THEN [err |-> e, caller |-> t, ret |-> NoResult]
        ELSE [err |-> "",
              caller |-> pruned,
              ret |-> [df |-> KeptRows(pruned, mask),
                       cols_dropped |-> cols_dropped,
                       dropped_rows |-> DroppedRows(pruned, mask)]]

\* the whole routine: the error, the caller's table after the call, the result
custom_drop_na(t, a) ==
    LET e            == DropValidate(t, a)
        cols_dropped == ColsDropped(t, a.drop_col_threshold)
        pruned       == DropColumns(t, Range(cols_dropped))
        mask         == RowMask(pruned, a.drop_row_threshold)
    IN  IF e # ""
        THEN [err |-> e, caller |-> t, ret |-> NoResult]
        ELSE [err |-> "",
              caller |-> pruned,
              ret |-> [df |-> KeptRows(pruned, mask),
                       cols_dropped |-> cols_dropped,
                       dropped_rows |-> DroppedRows(pruned, mask)]]

\* the call comes back with r: the caller's table as the routine leaves it,
\* the value returned and the error raised
Returns(r) ==
    /\ df' = r.caller
    /\ ret' = r.ret
    /\ err' = r.err

CustomDropNa(a) ==
    /\ op = "idle"
    /\ op' = "custom_drop_na"
    /\ args' = a
    /\ pre' = df
    /\ Returns(custom_drop_na(df, a))
    /\ UNCHANGED probe

-----------------------------------------------------------------------------
(* float64 arithmetic: the numbers of pandas and numpy are IEEE doubles, every
   operation gives the double nearest to the exact result, the even one of
   two equally near *)

\* natural numbers of any size are held as limbs in base LimbBase = 2^LimbBits,
\* the lowest first, the highest limb not zero; <<>> is 0
LimbBits == 14

LimbBase == 16384

\* the mantissa of a double has MantBits bits
MantBits == 53

\* 2^b
Pow2(b) == 2^b

RECURSIVE BigTrim(_)
BigTrim(a) ==
    IF Len(a) > 0 /\ a[Len(a)] = 0 THEN BigTrim(SubSeq(a, 1, Len(a) - 1)) ELSE a

\* the natural number i < 2^31
BigOf(i) ==
    BigTrim(<<i % LimbBase, (i \div LimbBase) % LimbBase, i \div (LimbBase * LimbBase)>>)

\* the limb of a at position i, 0 beyond its length
Limb(a, i) == IF i <= Len(a) THEN a[i] ELSE 0

\* a + b from position i on, with carry c
RECURSIVE BigAddFrom(_, _, _, _, _)
BigAddFrom(a, b, i, c, acc) ==
    IF i > Len(a) /\ i > Len(b) THEN (IF c = 0 THEN acc ELSE Append(acc, c))
    ELSE BigAddFrom(a, b, i + 1, (Limb(a, i) + Limb(b, i) + c) \div LimbBase,
                    Append(acc, (Limb(a, i) + Limb(b, i) + c) % LimbBase))

BigAdd(a, b) == BigAddFrom(a, b, 1, 0, <<>>)

\* a - b for a >= b from position i on, with borrow c
RECURSIVE BigSubFrom(_, _, _, _, _)
BigSubFrom(a, b, i, c, acc) ==
    IF i > Len(a) THEN BigTrim(acc)
    ELSE BigSubFrom(a, b, i + 1, IF a[i] - Limb(b, i) - c < 0 THEN 1 ELSE 0,
                    Append(acc, (a[i] - Limb(b, i) - c + LimbBase) % LimbBase))

BigSub(a, b) == BigSubFrom(a, b, 1, 0, <<>>)

\* a < b for numbers of equal length, from limb i down
RECURSIVE BigLessFrom(_, _, _)
BigLessFrom(a, b, i) ==
    IF i = 0 THEN FALSE
    ELSE IF a[i] # b[i] THEN a[i] < b[i]
    ELSE BigLessFrom(a, b, i - 1)

BigLess(a, b) ==
    IF Len(a) # Len(b) THEN Len(a) < Len(b) ELSE BigLessFrom(a, b, Len(a))

\* a * k for 0 <= k < 2^16, from position i on, with carry c
RECURSIVE BigScaleFrom(_, _, _, _, _)
BigScaleFrom(a, k, i, c, acc) ==
    IF i > Len(a) THEN BigTrim(Append(Append(acc, c % LimbBase), c \div LimbBase))
    ELSE BigScaleFrom(a, k, i + 1, (a[i] * k + c) \div LimbBase,
                      Append(acc, (a[i] * k + c) % LimbBase))

BigScale(a, k) == BigScaleFrom(a, k, 1, 0, <<>>)

\* n zero limbs
Zeros(n) == [i \in 1..n |-> 0]

\* a * b: the sum of a * b[i] * LimbBase^(i-1)
RECURSIVE BigMulFrom(_, _, _, _)
BigMulFrom(a, b, i, acc) ==
    IF i > Len(b) THEN acc
    ELSE BigMulFrom(a, b, i + 1,
                    IF b[i] = 0 THEN acc
                    ELSE BigAdd(acc, Zeros(i - 1) \o BigScale(a, b[i])))

BigMul(a, b) == BigMulFrom(a, b, 1, <<>>)

\* a * 2^k
BigShl(a, k) ==
    IF Len(a) = 0 THEN a
    ELSE Zeros(k \div LimbBits) \o BigScale(a, Pow2(k % LimbBits))

\* floor(a / d) for 0 < d <= LimbBase, from limb i down, with remainder r
RECURSIVE BigDivFrom(_, _, _, _, _)
BigDivFrom(a, d, i, r, acc) ==
    IF i = 0 THEN BigTrim(acc)
    ELSE BigDivFrom(a, d, i - 1, (r * LimbBase + a[i]) % d,
                    <<(r * LimbBase + a[i]) \div d>> \o acc)

\* floor(a / 2^k)
BigShr(a, k) ==
    IF k \div LimbBits >= Len(a) THEN <<>>
    ELSE BigDivFrom(SubSeq(a, k \div LimbBits + 1, Len(a)), Pow2(k % LimbBits),
                    Len(a) - k \div LimbBits, 0, <<>>)

\* the bit of a worth 2^k
BigBit(a, k) == (Limb(a, k \div LimbBits + 1) \div Pow2(k % LimbBits)) % 2

\* a is a multiple of 2^k
BigLowZero(a, k) ==
    /\ \A i \in 1..(k \div LimbBits) : Limb(a, i) = 0
    /\ Limb(a, k \div LimbBits + 1) % Pow2(k % LimbBits) = 0

\* the number of bits of the limb x
RECURSIVE LimbLen(_)
LimbLen(x) == IF x = 0 THEN 0 ELSE 1 + LimbLen(x \div 2)

\* the number of bits of a
BigLen(a) == IF Len(a) = 0 THEN 0 ELSE LimbBits * (Len(a) - 1) + LimbLen(a[Len(a)])

\* the value of a < 2^31 as an integer, from limb i down
RECURSIVE BigInt(_, _)
BigInt(a, i) == IF i > Len(a) THEN 0 ELSE a[i] + LimbBase * BigInt(a, i + 1)

\* the number of zero limbs at the low end of a > 0, counted from limb i
RECURSIVE ZeroLimbs(_, _)
ZeroLimbs(a, i) == IF a[i] = 0 THEN 1 + ZeroLimbs(a, i + 1) ELSE 0

\* the number of zero bits at the low end of the limb x > 0
RECURSIVE ZeroBits(_)
ZeroBits(x) == IF x % 2 = 1 THEN 0 ELSE 1 + ZeroBits(x \div 2)

\* the number of zero bits at the low end of a > 0, z being its zero limbs
LowZeros(a, z) == LimbBits * z + ZeroBits(a[z + 1])

\* floor(a / d) for d of DivLimbs limbs, the highest at least LimbBase / 2,
\* limb after limb of a from limb i down: r < d is the remainder so far, acc
\* the quotient so far. The result is [q, r].
RECURSIVE BigDivLong(_, _, _, _, _)
\* the quotient limb q, lowered until prod = q * d is at most r, is taken
RECURSIVE DivFit(_, _, _, _, _, _, _)
DivFit(a, d, i, r, acc, q, prod) ==
    IF BigLess(r, prod) THEN DivFit(a, d, i, r, acc, q - 1, BigSub(prod, d))
    ELSE BigDivLong(a, d, i - 1, BigSub(r, prod), <<q>> \o acc)

\* the estimate est of the quotient limb, from the two highest limbs of r, is
\* not below the limb and at most LimbBase - 1
DivEst(a, d, i, r, acc, est) ==
    IF est = 0 THEN BigDivLong(a, d, i - 1, r, <<0>> \o acc)
    ELSE IF est >= LimbBase
    THEN DivFit(a, d, i, r, acc, LimbBase - 1, BigScale(d, LimbBase - 1))
    ELSE DivFit(a, d, i, r, acc, est, BigScale(d, est))

\* no quotient limb is looked for while r is shorter than d
DivLimbStep(a, d, i, r, acc) ==
    IF Len(r) < Len(d) THEN BigDivLong(a, d, i - 1, r, <<0>> \o acc)
    ELSE DivEst(a, d, i, r, acc,
                (Limb(r, Len(d) + 1) * LimbBase + r[Len(d)]) \div d[Len(d)])

BigDivLong(a, d, i, r, acc) ==
    IF i = 0 THEN [q |-> BigTrim(acc), r |-> r]
    ELSE DivLimbStep(a, d, i, BigTrim(<<a[i]>> \o r), acc)

\* the limbs of a divisor
DivLimbs == 4

\* floor(a / b) and the remainder, both scaled by 2^k so that b has
\* DivLimbs * LimbBits bits
BigDivScaled(a, b, k) == BigDivLong(BigShl(a, k), BigShl(b, k), Len(BigShl(a, k)), <<>>, <<>>)

\* floor(a / b) for b > 0 of at most DivLimbs * LimbBits bits
BigDiv(a, b) == BigDivScaled(a, b, DivLimbs * LimbBits - BigLen(b)).q

\* NaN or an infinity
NotFinite(x) == Len(x.m) = 0 /\ x.e # 0

IsInf(x) == Len(x.m) = 0 /\ x.e = 2

\* m * 2^e with the k zero bits at the low end of m moved to the exponent
FOdd(neg, m, e, k) == IF k = 0 THEN Dbl(neg, m, e) ELSE Dbl(neg, BigShr(m, k), e + k)

FExact(neg, m, e) == FOdd(neg, m, e, LowZeros(m, ZeroLimbs(m, 1)))

\* m * 2^e for m of MantBits + k bits, k > 0: the k low bits are cut off and
\* round to nearest, ties to even
RoundOff(neg, m, e, k) ==
    FExact(neg,
           IF BigBit(m, k - 1) = 1 /\ (~BigLowZero(m, k - 1) \/ BigBit(m, k) = 1)
           THEN BigAdd(BigShr(m, k), <<1>>) ELSE BigShr(m, k),
           e + k)

\* the double nearest to (-1)^neg * m * 2^e, len being the number of bits of m
Nearest53(neg, m, e, len) ==
    IF len = 0 THEN FZero
    ELSE IF len <= MantBits THEN FExact(neg, m, e)
    ELSE RoundOff(neg, m, e, len - MantBits)

FRound(neg, m, e) == Nearest53(neg, m, e, BigLen(m))

\* the double of the integer i
FInt(i) == IF i < 0 THEN FRound(TRUE, BigOf(-i), 0) ELSE FRound(FALSE, BigOf(i), 0)

FNeg(x) == IF Len(x.m) = 0 /\ ~IsInf(x) THEN x ELSE [x EXCEPT !.neg = ~x.neg]

FAbs(x) == [x EXCEPT !.neg = FALSE]

\* |x| < |y| for x, y not zero, hx and hy being the places of their highest bits
AbsLess(x, y, hx, hy) ==
    IF hx # hy THEN hx < hy
    ELSE IF x.e >= y.e THEN BigLess(BigShl(x.m, x.e - y.e), y.m)
    ELSE BigLess(x.m, BigShl(y.m, y.e - x.e))

\* x < y, false when one of them is NaN
FLess(x, y) ==
    IF x = FNaN \/ y = FNaN THEN FALSE
    ELSE IF IsInf(x) THEN x.neg /\ y # x
    ELSE IF IsInf(y) THEN ~y.neg
    ELSE IF Len(x.m) = 0 THEN Len(y.m) > 0 /\ ~y.neg
    ELSE IF Len(y.m) = 0 THEN x.neg
    ELSE IF x.neg # y.neg THEN x.neg
    ELSE IF x.neg THEN AbsLess(y, x, BigLen(y.m) + y.e, BigLen(x.m) + x.e)
    ELSE AbsLess(x, y, BigLen(x.m) + x.e, BigLen(y.m) + y.e)

\* x <= y, false when one of them is NaN
FLeq(x, y) == x # FNaN /\ (x = y \/ FLess(x, y))

\* the sum of two numbers with the same exponent e
AddAligned(xneg, xm, yneg, ym, e) ==
    IF xneg = yneg THEN FRound(xneg, BigAdd(xm, ym), e)
    ELSE IF BigLess(xm, ym) THEN FRound(yneg, BigSub(ym, xm), e)
    ELSE FRound(xneg, BigSub(xm, ym), e)

\* x + y with x or y not finite
AddNotFinite(x, y) ==
    IF x = FNaN \/ y = FNaN THEN FNaN
    ELSE IF IsInf(x) /\ IsInf(y) THEN (IF x.neg = y.neg THEN x ELSE FNaN)
    ELSE IF IsInf(x) THEN x
    ELSE y

\* x + y
FAdd(x, y) ==
    IF NotFinite(x) \/ NotFinite(y) THEN AddNotFinite(x, y)
    ELSE IF Len(x.m) = 0 THEN y
    ELSE IF Len(y.m) = 0 THEN x
    ELSE IF x.e >= y.e THEN AddAligned(x.neg, BigShl(x.m, x.e - y.e), y.neg, y.m, y.e)
    ELSE AddAligned(x.neg, x.m, y.neg, BigShl(y.m, y.e - x.e), x.e)

\* x - y
FSub(x, y) == FAdd(x, FNeg(y))

\* x * y with x or y not finite
MulNotFinite(x, y) ==
    IF x = FNaN \/ y = FNaN \/ x = FZero \/ y = FZero THEN FNaN
    ELSE FInf(x.neg # y.neg)

\* x * y
FMul(x, y) ==
    IF NotFinite(x) \/ NotFinite(y) THEN MulNotFinite(x, y)
    ELSE IF Len(x.m) = 0 \/ Len(y.m) = 0 THEN FZero
    ELSE FRound(x.neg # y.neg, BigMul(x.m, y.m), x.e + y.e)

\* 2 * q, plus 1 when the division left a remainder
Sticky(c) == BigAdd(BigScale(c.q, 2), IF Len(c.r) = 0 THEN <<>> ELSE <<1>>)

\* x / y for x, y not zero: kx, ky shift their mantissas to
\* DivLimbs * LimbBits bits; the quotient is taken to that many bits
DivShifted(x, y, kx, ky) ==
    FRound(x.neg # y.neg,
           Sticky(BigDivLong(Zeros(DivLimbs) \o BigShl(x.m, kx), BigShl(y.m, ky),
                             2 * DivLimbs, <<>>, <<>>)),
           x.e - kx - (y.e - ky) - DivLimbs * LimbBits - 1)

\* x / y with x or y not finite, or y zero
DivNotFinite(x, y) ==
    IF x = FNaN \/ y = FNaN THEN FNaN
    ELSE IF IsInf(x) THEN (IF IsInf(y) THEN FNaN ELSE FInf(x.neg # y.neg))
    ELSE IF IsInf(y) THEN FZero
    ELSE IF x = FZero THEN FNaN
    ELSE FInf(x.neg)

\* x / y
FDiv(x, y) ==
    IF NotFinite(x) \/ Len(y.m) = 0 THEN DivNotFinite(x, y)
    ELSE IF Len(x.m) = 0 THEN FZero
    ELSE IF y.m = <<1>> THEN Dbl(x.neg # y.neg, x.m, x.e - y.e)
    ELSE DivShifted(x, y, DivLimbs * LimbBits - BigLen(x.m),
                    DivLimbs * LimbBits - BigLen(y.m))

\* the integer square root of m >= 0, searched between lo and hi
RECURSIVE ISqrtIn(_, _, _)
ISqrtIn(m, lo, hi) ==
    IF lo >= hi THEN lo
    ELSE IF ((lo + hi + 1) \div 2) * ((lo + hi + 1) \div 2) <= m
    THEN ISqrtIn(m, (lo + hi + 1) \div 2, hi)
    ELSE ISqrtIn(m, lo, (lo + hi + 1) \div 2 - 1)

ISqrt(m) == ISqrtIn(m, 0, 46340)

\* Newton's rule for the square root of n: (r + n / r) / 2, never below the
\* integer square root
RootStep(n, r) == BigShr(BigAdd(r, BigDiv(n, r)), 1)

\* the same for r = g * 2^k with g <= LimbBase + 1, shifted being n / 2^k
RootFirst(shifted, g, k) ==
    BigShr(BigAdd(BigShl(BigOf(g), k), BigDivFrom(shifted, g, Len(shifted), 0, <<>>)), 1)

\* the integer square root of n, from r not below it and down
RECURSIVE RootDown(_, _)
RootDown(n, r) == IF BigLess(n, BigMul(r, r)) THEN RootDown(n, BigSub(r, <<1>>)) ELSE r

\* 2 * r, plus 1 when n is not the square of r
StickyRoot(n, r) == BigAdd(BigScale(r, 2), IF BigMul(r, r) = n THEN <<>> ELSE <<1>>)

\* sqrt(n * 2^e) for an even e and n of RootBits - 1 or RootBits bits: the
\* root of the highest bits of n, two steps of Newton's rule, and down
RootBits == 110

RootEven(n, e) ==
    FRound(FALSE,
           StickyRoot(n, RootDown(n, RootStep(n,
               RootFirst(BigShr(n, 41), ISqrt(BigInt(BigShr(n, 82), 1)) + 1, 41)))),
           e \div 2 - 1)

\* sqrt(x) for x >= 0: the mantissa is shifted by k to RootBits - 1 or RootBits
\* bits, the exponent left being even
RootShifted(x, k) ==
    IF (x.e - k) % 2 = 0 THEN RootEven(BigShl(x.m, k), x.e - k)
    ELSE RootEven(BigShl(x.m, k - 1), x.e - k + 1)

\* sqrt(x), NaN for x < 0
FSqrt(x) ==
    IF Len(x.m) = 0 THEN (IF x = FInf(TRUE) THEN FNaN ELSE x)
    ELSE IF x.neg THEN FNaN
    ELSE RootShifted(x, RootBits - BigLen(x.m))

\* np.rint(x): the integer nearest to x, the even one of two equally near
FRint(x) ==
    IF Len(x.m) = 0 \/ x.e >= 0 THEN x
    ELSE FRound(x.neg,
                IF BigBit(x.m, -x.e - 1) = 1
                   /\ (~BigLowZero(x.m, -x.e - 1) \/ BigBit(x.m, -x.e) = 1)
                THEN BigAdd(BigShr(x.m, -x.e), <<1>>) ELSE BigShr(x.m, -x.e),
                0)

\* the float literal n/d for integers n and d > 0, such as 0.1 for 1/10: the
\* double nearest to it
Float(n, d) == IF d = 1 THEN FInt(n) ELSE FDiv(FInt(n), FInt(d))

\* the cell of the integer i
Num(i) == Val(FInt(i))

\* the cell of the float literal n/d
Dec(n, d) == Val(Float(n, d))

\* the function f on 1..Len(f) as a sequence
SeqOf(f) == f \o <<>>

\* the cells of a column that hold a value
Values(vals) == KeepIdx(vals, {i \in DOMAIN vals : ~isna(vals[i])})

\* the double of a cell that holds a number
CellDbl(c) == c.v

\* the doubles of cells that hold numbers
Doubles(xs) == SeqOf([i \in DOMAIN xs |-> CellDbl(xs[i])])

\* the doubles of the cells xs with 0 in the place of a null
ZeroFilled(xs) == SeqOf([i \in DOMAIN xs |-> IF isna(xs[i]) THEN FZero ELSE CellDbl(xs[i])])

\* numpy's pairwise summation takes blocks of at most PW_BLOCKSIZE numbers
PW_BLOCKSIZE == 128

\* res += a[i] for i from lo to hi
RECURSIVE AddUp(_, _, _, _)
AddUp(a, lo, hi, res) == IF lo > hi THEN res ELSE AddUp(a, lo + 1, hi, FAdd(res, a[lo]))

\* r[j] += a[i + j] for the blocks of eight: the numbers at j, j + 8, ... up
\* to top, added to res
RECURSIVE AddLane(_, _, _, _)
AddLane(a, j, top, res) == IF j > top THEN res ELSE AddLane(a, j + 8, top, FAdd(res, a[j]))

\* the eight partial sums r of the n numbers of a after off, n >= 8
Lanes(a, off, n) ==
    [j \in 1..8 |-> AddLane(a, off + j + 8, off + n - (n % 8), a[off + j])]

\* ((r[0] + r[1]) + (r[2] + r[3])) + ((r[4] + r[5]) + (r[6] + r[7]))
AddLanes(r) ==
    FAdd(FAdd(FAdd(r[1], r[2]), FAdd(r[3], r[4])), FAdd(FAdd(r[5], r[6]), FAdd(r[7], r[8])))

\* numpy's pairwise_sum of the n numbers of a after the first off: one after
\* the other below eight numbers, in eight interleaved partial sums up to
\* PW_BLOCKSIZE numbers, in two halves beyond
RECURSIVE PairwiseSum(_, _, _)
PairwiseSum(a, off, n) ==
    IF n < 8 THEN AddUp(a, off + 1, off + n, FZero)
    ELSE IF n <= PW_BLOCKSIZE
    THEN AddUp(a, off + n - (n % 8) + 1, off + n, AddLanes(Lanes(a, off, n)))
    ELSE FAdd(PairwiseSum(a, off, (n \div 2) - ((n \div 2) % 8)),
              PairwiseSum(a, (off + (n \div 2)) - ((n \div 2) % 8),
                          n - ((n \div 2) - ((n \div 2) % 8))))

\* np.sum of a contiguous float64 array
FSum(a) == PairwiseSum(a, 0, Len(a))

-----------------------------------------------------------------------------
(* get_missing_formatted *)

\* np.round(x, 2): x * 100, the nearest integer, / 100
Round2(x) == FDiv(FRint(FMul(x, FInt(100))), FInt(100))

\* (df.isna().sum() / len(df) * 100).round(2): NaN (0 / 0) on a frame without
\* rows
PctMissing(nulls, nrows) == Round2(FMul(FDiv(FInt(nulls), FInt(nrows)), FInt(100)))

\* one row of the summary frame; pct is "% Missing"
SummaryRow(name, nulls, nrows) ==
    [Column |-> name, pct |-> PctMissing(nulls, nrows), missing |-> nulls]

\* summary[summary["% Missing"] > 0]
Listed(row) == FLess(FZero, row.pct)

Summary(t, only_missing) ==
    LET all == [j \in 1..NCols(t) |->
                  SummaryRow(t.cols[j].name, NaCount(t.cols[j].vals), NRows(t))]
    IN  IF only_missing THEN KeepIdx(all, {j \in 1..Len(all) : Listed(all[j])}) ELSE all

\* x.mean() (pandas' nanmean) of the cells of a group: the sum of the values,
\* the nulls counting as 0, over the number of values; NaN without a value
Mean(cells) ==
    IF NaCount(cells) = Len(cells) THEN FNaN
    ELSE FDiv(FSum(ZeroFilled(cells)), FInt(Len(cells) - NaCount(cells)))

\* the order of Python strings on the strings of the model
StrOrder == <<"A", "B", "Unknown", "a", "b">>

StrRank(x) == CHOOSE i \in 1..Len(StrOrder) : StrOrder[i] = x

\* cell order within a column: numbers by value, strings as Python orders them
CellLess(c1, c2) ==
    IF c1.k = "str" THEN StrRank(c1.s) < StrRank(c2.s)
    ELSE FLess(CellDbl(c1), CellDbl(c2))

Count(cells, c) == Cardinality({i \in DOMAIN cells : cells[i] = c})

\* the smallest of the most frequent of the cells
Smallest(top) == CHOOSE c \in top : \A c2 \in top : c2 = c \/ CellLess(c, c2)

MostFrequent(cells) ==
    Smallest({c \in Range(cells) :
                 \A c2 \in Range(cells) : Count(cells, c2) <= Count(cells, c)})

\* x.mode().iloc[0] if not x.mode().empty else "Unknown": the smallest of the
\* most frequent values of the group, the nulls left out
Mode(cells) ==
    IF NaCount(cells) = Len(cells) THEN Str("Unknown") ELSE MostFrequent(Values(cells))

\* df[col] = df.groupby("PriceCategory")[col].transform(lambda x: x.fillna(...)):
\* rows whose key is null belong to no group and come back as NaN; with no
\* group at all the transform is an empty float64 series, and the column
\* assigned from it is float64
FillColumn(t, name) ==
    LET pc  == t.cols[CHOOSE j \in 1..NCols(t) : t.cols[j].name = "PriceCategory"].vals
        jc  == CHOOSE j \in 1..NCols(t) : t.cols[j].name = name
        v   == t.cols[jc].vals
        grp(i) == KeepIdx(v, {i2 \in 1..NRows(t) : pc[i2] = pc[i]})
        fillv(i) == IF t.cols[jc].dtype = "num" THEN Val(Mean(grp(i))) ELSE Mode(grp(i))
    IN  [t EXCEPT !.cols[jc].dtype = IF NaCount(pc) = Len(pc) THEN "num" ELSE @,
                  !.cols[jc].vals =
            [i \in 1..NRows(t) |->
                IF isna(pc[i]) THEN NaN
                ELSE IF isna(v[i]) THEN fillv(i)
                ELSE v[i]]]

\* the loop over summary["Column"], from position i on
RECURSIVE FillAll(_, _, _)
FillAll(t, names, i) ==
    IF i > Len(names) THEN t ELSE FillAll(FillColumn(t, names[i]), names, i + 1)

get_missing_formatted(t, a) ==
    LET summary == Summary(t, a.only_missing)
        has_pc  == \E j \in 1..NCols(t) : t.cols[j].name = "PriceCategory"
        names   == [i \in 1..Len(summary) |-> summary[i].Column]
    IN  IF ~a.fill
        THEN [err |-> "", caller |-> t, ret |-> summary]
        ELSE IF a.fill_func # "None"
        THEN [err |-> IF has_pc THEN "UnboundLocalError:col" ELSE "KeyError:PriceCategory",
              caller |-> t, ret |-> NoResult]
        ELSE IF Len(names) = 0
        THEN [err |-> "", caller |-> t, ret |-> summary]
        ELSE IF ~has_pc
        THEN [err |-> "KeyError:PriceCategory", caller |-> t, ret |-> NoResult]
        ELSE [err |-> "", caller |-> FillAll(t, names, 1), ret |-> summary]

GetMissingFormatted(a) ==
    /\ op = "idle"
    /\ op' = "get_missing_formatted"
    /\ args' = a
    /\ pre' = df
    /\ Returns(get_missing_formatted(df, a))
    /\ UNCHANGED probe

-----------------------------------------------------------------------------
(* The grid of subplots shared by multiboxplot, multiplot and multiplot_norm *)

\* fewer than ten distinct values makes a column categorical-like
MinUnique == 10

\* the hue column may have at most ten distinct values
MaxHueUnique == 10

\* get_basic_info lists sample values of columns of at most ten distinct values
MaxSampleUnique == 10

\* get_basic_info lists at most five sample values
MaxSamples == 5

\* df[col].nunique(): the number of distinct non-null values
NUnique(vals) == Cardinality({vals[i] : i \in {i2 \in DOMAIN vals : ~isna(vals[i2])}})

\* pd.api.types.is_numeric_dtype(df[col])
IsNumeric(col) == col.dtype = "num"

\* rounding down in place of math.ceil
GridRows_floor(nr_of_plots, nr_of_plots_col) == nr_of_plots \div nr_of_plots_col

\* nr_of_plots_row = math.ceil(nr_of_plots / nr_of_plots_col)
GridRows(nr_of_plots, nr_of_plots_col) ==
    (nr_of_plots + nr_of_plots_col - 1) \div nr_of_plots_col

\* len(axes) after plt.subplots(nr_of_plots_row, nr_of_plots_col) and flatten()
AxesLen(nr_of_plots, nr_of_plots_col) ==
    GridRows(nr_of_plots, nr_of_plots_col) * nr_of_plots_col

\* a column name is in cols_to_exclude (None stands for the empty list)
Excluded(a, name) == a.cols_to_exclude.kind = "list" /\ name \in a.cols_to_exclude.items

\* the names of the columns of t at the positions in K, in table order
NamesAt(t, K) == KeepIdx(ColNames(t), K)

\* for j in range(len(columns), len(axes)): fig.delaxes(axes[j])
Deleted(n, n_axes) == {j \in 0..(n_axes - 1) : j >= n}

-----------------------------------------------------------------------------
(* multiboxplot *)

\* the cells in the places that rank gives them
Placed(cells, rank) ==
    [p \in 1..Len(cells) |-> cells[CHOOSE i \in DOMAIN cells : rank[i] = p]]

\* the cells of a numeric column in ascending order
Sorted(cells) ==
    Placed(cells,
           SeqOf([i \in DOMAIN cells |->
                    1 + Cardinality({j \in DOMAIN cells :
                          CellLess(cells[j], cells[i]) \/ (cells[j] = cells[i] /\ j < i)})]))

\* numpy's _lerp(a, b, t) for t = r / qd: a + (b - a) * t below t = 0.5,
\* b - (b - a) * (1 - t) from there on
Lerp(a, b, r, qd) ==
    IF 2 * r >= qd THEN FSub(b, FMul(FSub(b, a), Float(qd - r, qd)))
    ELSE FAdd(a, FMul(FSub(b, a), Float(r, qd)))

\* the quantile of the sorted cells s at the place lo + r / qd (from 0)
QuantileAt(s, lo, r, qd) ==
    Lerp(CellDbl(s[lo + 1]), CellDbl(s[IF lo + 2 <= Len(s) THEN lo + 2 ELSE Len(s)]), r, qd)

\* series.quantile(qn / qd): linear interpolation between the two nearest
\* ranks, at the place (n - 1) * qn / qd
Quantile(cells, qn, qd) ==
    QuantileAt(Sorted(cells), ((Len(cells) - 1) * qn) \div qd,
               ((Len(cells) - 1) * qn) % qd, qd)

\* iqr = q3 - q1; lower, upper = q1 - iqr_const * iqr, q3 + iqr_const * iqr
FencesOf(q1, q3, k, iqr) ==
    [lower |-> FSub(q1, FMul(k, iqr)), upper |-> FAdd(q3, FMul(k, iqr))]

FencesAt(q1, q3, k) == FencesOf(q1, q3, k, FSub(q3, q1))

Fences(cells, iqr_const) ==
    FencesAt(Quantile(cells, 1, 4), Quantile(cells, 3, 4), iqr_const)

\* fences that count as outside
IsOutlier_inclusive(c, fences) ==
    /\ ~isna(c)
    /\ (~FLess(fences.lower, CellDbl(c)) \/ ~FLess(CellDbl(c), fences.upper))

\* (df[column_name] < lower) | (df[column_name] > upper); NaN compares False
IsOutlier(c, fences) ==
    /\ ~isna(c)
    /\ (FLess(CellDbl(c), fences.lower) \/ FLess(fences.upper, CellDbl(c)))

\* the rows of t whose cell in vals lies outside the fences
OutlierRows(t, vals, fences) == TakeRows(t, {i \in 1..NRows(t) : IsOutlier(vals[i], fences)})

\* get_outliers(column_name, iqr_const): the pair [column name, outlier rows];
\* for a column without a value the rows are pd.DataFrame(columns=df.columns),
\* a frame without rows whose columns are all of dtype object
get_outliers(t, column_name, iqr_const) ==
    LET v == t.cols[CHOOSE j \in 1..NCols(t) : t.cols[j].name = column_name].vals
    IN  IF NaCount(v) = Len(v)
        THEN [name |-> column_name,
              rows |-> Table(<<>>, [j \in 1..NCols(t) |->
                                      Column(t.cols[j].name, "obj", <<>>)])]
        ELSE [name |-> column_name, rows |-> OutlierRows(t, v, Fences(Values(v), iqr_const))]

\* more than ten distinct values asked for
BoxQualifies_strict(a, col) ==
    ~Excluded(a, col.name) /\ IsNumeric(col) /\ NUnique(col.vals) > MinUnique

\* numeric_columns: not excluded, numeric, at least ten distinct values
BoxQualifies(a, col) ==
    ~Excluded(a, col.name) /\ IsNumeric(col) /\ NUnique(col.vals) >= MinUnique

\* sns.boxplot(data=df, y=col, ax=ax, hue=hue) raises: hue names no column of
\* df, or the plotting library fails on the column
BoxplotRaises(t, a, name) ==
    \/ a.hue # "None" /\ a.hue \notin Range(ColNames(t))
    \/ name \in a.raises

BoxValidate(t, a) ==
    IF ~a.is_frame THEN "TypeError:df"
    ELSE IF IsEmpty(t) THEN "ValueError:empty"
    ELSE IF a.nr_of_plots_col <= 0 THEN "ValueError:nr_of_plots_col"
    ELSE IF a.cols_to_exclude.kind = "str" THEN "TypeError:cols_to_exclude"
    ELSE ""

\* the loop over numeric_columns from position i (1-based) on; acc is
\* [err, outliers, cells] so far
RECURSIVE BoxLoop(_, _, _, _, _, _)
BoxLoop(t, a, cols, n_axes, i, acc) ==
    IF i > Len(cols) THEN acc
    ELSE IF i - 1 >= n_axes
    THEN [acc EXCEPT !.err = "IndexError"]
    ELSE IF BoxplotRaises(t, a, cols[i])
    THEN BoxLoop(t, a, cols, n_axes, i + 1,
                 [acc EXCEPT !.cells = Append(@, [col |-> cols[i], axis |-> i - 1,
                                                   drawn |-> "error"])])
    ELSE BoxLoop(t, a, cols, n_axes, i + 1,
                 [acc EXCEPT !.cells = Append(@, [col |-> cols[i], axis |-> i - 1,
                                                   drawn |-> "boxplot"]),
                             !.outliers = Append(@, get_outliers(t, cols[i], a.iqr_const))])

multiboxplot(t, a) ==
    LET e               == BoxValidate(t, a)
        numeric_columns == NamesAt(t, {j \in 1..NCols(t) : BoxQualifies(a, t.cols[j])})
        n_axes          == AxesLen(Len(numeric_columns), a.nr_of_plots_col)
        done            == BoxLoop(t, a, numeric_columns, n_axes, 1,
                                   [err |-> "", outliers |-> <<>>, cells |-> <<>>])
    IN  IF e # "" THEN [err |-> e, caller |-> t, ret |-> NoResult]
        ELSE IF Len(numeric_columns) = 0
        THEN [err |-> "ValueError:no_columns", caller |-> t, ret |-> NoResult]
        ELSE IF done.err # ""
        THEN [err |-> done.err, caller |-> t, ret |-> NoResult]
        ELSE [err |-> "", caller |-> t,
              ret |-> [value |-> done.outliers, selected |-> numeric_columns,
                       cells |-> done.cells, n_axes |-> n_axes,
                       deleted |-> Deleted(Len(numeric_columns), n_axes)]]

Multiboxplot(a) ==
    /\ op = "idle"
    /\ op' = "multiboxplot"
    /\ args' = a
    /\ pre' = df
    /\ Returns(multiboxplot(df, a))
    /\ UNCHANGED probe

-----------------------------------------------------------------------------
(* multiplot and multiplot_norm *)

\* df[col].dtype == 'object' or df[col].nunique() < 10
CategoricalLike(col) == col.dtype = "obj" \/ NUnique(col.vals) < MinUnique

\* plot_columns: not excluded and not the hue column
PlotQualifies(a, col) == ~Excluded(a, col.name) /\ col.name # a.hue

\* df[hue].nunique() > 10
HueTooWide(t, a) ==
    NUnique(t.cols[CHOOSE j \in 1..NCols(t) : t.cols[j].name = a.hue].vals) > MaxHueUnique

PlotValidate(t, a) ==
    IF ~a.is_frame THEN "TypeError:df"
    ELSE IF a.hue \notin Range(ColNames(t)) THEN "ValueError:hue"
    ELSE IF IsEmpty(t) THEN "ValueError:empty"
    ELSE IF a.cols_to_exclude.kind = "str" THEN "TypeError:cols_to_exclude"
    ELSE IF a.nr_of_plots_col <= 0 THEN "ValueError:nr_of_plots_col"
    ELSE IF HueTooWide(t, a) THEN "ValueError:hue_unique"
    ELSE ""

\* sns.countplot / sns.histplot raises on the column
SeabornRaises(a, col) == col.name \in a.raises

\* the body of the try block of multiplot for one column: only the two branches
\* that call the plotting library can raise
PlotKind(a, col) ==
    IF CategoricalLike(col)
    THEN (IF SeabornRaises(a, col) THEN "error" ELSE "countplot")
    ELSE IF IsNumeric(col)
    THEN (IF SeabornRaises(a, col) THEN "error" ELSE "histplot")
    ELSE "unsupported"

\* the body of the try block of multiplot_norm for one column
NormKind(a, col) ==
    IF NaCount(col.vals) = Len(col.vals) THEN "empty"
    ELSE IF CategoricalLike(col)
    THEN (IF SeabornRaises(a, col) THEN "error" ELSE "histplot_categorical")
    ELSE IF IsNumeric(col)
    THEN (IF SeabornRaises(a, col) THEN "error" ELSE "histplot")
    ELSE "unsupported"

\* the loop of multiplot over plot_columns from position i (1-based) on
RECURSIVE PlotLoop(_, _, _, _, _, _)
PlotLoop(t, a, cols, n_axes, i, acc) ==
    IF i > Len(cols) THEN acc
    ELSE IF i - 1 >= n_axes
    THEN [acc EXCEPT !.err = "IndexError"]
    ELSE PlotLoop(t, a, cols, n_axes, i + 1,
                  [acc EXCEPT !.cells = Append(@,
                      [col |-> cols[i], axis |-> i - 1,
                       drawn |-> PlotKind(a, t.cols[CHOOSE j \in 1..NCols(t) :
                                                       t.cols[j].name = cols[i]])])])

multiplot(t, a) ==
    LET e            == PlotValidate(t, a)
        plot_columns == NamesAt(t, {j \in 1..NCols(t) : PlotQualifies(a, t.cols[j])})
        n_axes       == AxesLen(Len(plot_columns), a.nr_of_plots_col)
        done         == PlotLoop(t, a, plot_columns, n_axes, 1,
                                 [err |-> "", cells |-> <<>>])
    IN  IF e # "" THEN [err |-> e, caller |-> t, ret |-> NoResult]
        ELSE IF Len(plot_columns) = 0
        THEN [err |-> "ValueError:no_columns", caller |-> t, ret |-> NoResult]
        ELSE IF done.err # ""
        THEN [err |-> done.err, caller |-> t, ret |-> NoResult]
        ELSE [err |-> "", caller |-> t,
              ret |-> [value |-> <<>>, selected |-> plot_columns,
                       cells |-> done.cells, n_axes |-> n_axes,
                       deleted |-> Deleted(Len(plot_columns), n_axes)]]

NormValidate(t, a) ==
    IF ~a.is_frame THEN "TypeError:df"
    ELSE IF IsEmpty(t) THEN "ValueError:empty"
    ELSE IF a.hue \notin Range(ColNames(t)) THEN "ValueError:hue"
    ELSE IF a.nr_of_plots_col <= 0 THEN "ValueError:nr_of_plots_col"
    ELSE IF a.cols_to_exclude.kind = "str" THEN "TypeError:cols_to_exclude"
    ELSE IF HueTooWide(t, a) THEN "ValueError:hue_unique"
    ELSE ""

\* the loop of multiplot_norm over plot_columns from position i (1-based) on
RECURSIVE NormLoop(_, _, _, _, _, _)
NormLoop(t, a, cols, n_axes, i, acc) ==
    IF i > Len(cols) THEN acc
    ELSE IF i - 1 >= n_axes
    THEN [acc EXCEPT !.err = "IndexError"]
    ELSE NormLoop(t, a, cols, n_axes, i + 1,
                  [acc EXCEPT !.cells = Append(@,
                      [col |-> cols[i], axis |-> i - 1,
                       drawn |-> NormKind(a, t.cols[CHOOSE j \in 1..NCols(t) :
                                                       t.cols[j].name = cols[i]])])])

multiplot_norm(t, a) ==
    LET e            == NormValidate(t, a)
        plot_columns == NamesAt(t, {j \in 1..NCols(t) : PlotQualifies(a, t.cols[j])})
        n_axes       == AxesLen(Len(plot_columns), a.nr_of_plots_col)
        done         == NormLoop(t, a, plot_columns, n_axes, 1,
                                 [err |-> "", cells |-> <<>>])
    IN  IF e # "" THEN [err |-> e, caller |-> t, ret |-> NoResult]
        ELSE IF Len(plot_columns) = 0
        THEN [err |-> "ValueError:no_columns", caller |-> t, ret |-> NoResult]
        ELSE IF done.err # ""
        THEN [err |-> done.err, caller |-> t, ret |-> NoResult]
        ELSE [err |-> "", caller |-> t,
              ret |-> [value |-> <<>>, selected |-> plot_columns,
                       cells |-> done.cells, n_axes |-> n_axes,
                       deleted |-> Deleted(Len(plot_columns), n_axes)]]

Multiplot(a) ==
    /\ op = "idle"
    /\ op' = "multiplot"
    /\ args' = a
    /\ pre' = df
    /\ Returns(multiplot(df, a))
    /\ UNCHANGED probe

MultiplotNorm(a) ==
    /\ op = "idle"
    /\ op' = "multiplot_norm"
    /\ args' = a
    /\ pre' = df
    /\ Returns(multiplot_norm(df, a))
    /\ UNCHANGED probe

-----------------------------------------------------------------------------
(* get_basic_info *)

\* the values that df.duplicated() compares in row i: a frame of one column
\* compares the values themselves, None and NaN being different; with more
\* columns each column is factorized and its nulls are one value
RowCells(t, i) ==
    IF NCols(t) = 1 THEN <<t.cols[1].vals[i]>>
    ELSE [j \in 1..NCols(t) |->
            IF isna(t.cols[j].vals[i]) THEN NaN ELSE t.cols[j].vals[i]]

\* df.duplicated(): the positions of the rows equal to an earlier row
\* (no row of a frame without columns counts)
Duplicated(t) ==
    IF IsEmpty(t) THEN {}
    ELSE {i \in 1..NRows(t) : \E i2 \in 1..(i - 1) : RowCells(t, i2) = RowCells(t, i)}

\* the first occurrences of the distinct non-null values of a column, at most five
SampleValues(vals) ==
    LET first == {i \in DOMAIN vals :
                    ~isna(vals[i]) /\ \A i2 \in 1..(i - 1) : vals[i2] # vals[i]}
        uniq  == KeepIdx(vals, first)
    IN  SubSeq(uniq, 1, IF Len(uniq) < MaxSamples THEN Len(uniq) ELSE MaxSamples)

\* one row of summary_df
InfoRow(col, nrows) ==
    [Column |-> col.name, dtype |-> col.dtype, missing |-> NaCount(col.vals),
     pct |-> PctMissing(NaCount(col.vals), nrows), unique |-> NUnique(col.vals),
     sample |-> IF NUnique(col.vals) <= MaxSampleUnique \/ col.dtype = "obj"
                THEN SampleValues(col.vals) ELSE <<Str("Numerical/Continuous")>>]

\* returns the table itself, or a copy without its duplicate rows
get_basic_info(t, a) ==
    LET duplicates == Cardinality(Duplicated(t))
        out        == IF a.remove_duplicates /\ duplicates > 0
                      THEN TakeRows(t, (1..NRows(t)) \ Duplicated(t))
                      ELSE t
    IN  [err |-> "", caller |-> t,
         ret |-> [value |-> out,
                  summary |-> [j \in 1..NCols(t) |-> InfoRow(t.cols[j], NRows(t))],
                  duplicates |-> duplicates,
                  heatmap |-> \E j \in 1..NCols(out) : NaCount(out.cols[j].vals) > 0]]

GetBasicInfo(a) ==
    /\ op = "idle"
    /\ op' = "get_basic_info"
    /\ args' = a
    /\ pre' = df
    /\ Returns(get_basic_info(df, a))
    /\ UNCHANGED probe

-----------------------------------------------------------------------------
(* prepare_pca_groups, on a copy of the table: encoding, variance filter,
   correlation distance, average-linkage clustering *)

\* str(value) of a cell of an object column: "nan" for NaN, "None" for None
AsStr(c) == IF c.k = "nan" THEN "nan" ELSE IF c.k = "none" THEN "None" ELSE c.s

\* the order of Python strings on the strings a label can take
LabelOrder == <<"A", "B", "None", "Unknown", "a", "b", "nan">>

LabelRank(x) == CHOOSE i \in 1..Len(LabelOrder) : LabelOrder[i] = x

\* LabelEncoder().fit_transform(df_proc[col].astype(str)): the position of
\* the string among the sorted distinct strings
LabelEncode(vals) ==
    [i \in DOMAIN vals |->
        Num(Cardinality({LabelRank(AsStr(vals[i2])) : i2 \in DOMAIN vals}
                        \cap (1..(LabelRank(AsStr(vals[i])) - 1))))]

\* the place of a cell among the categories of OneHotEncoder: the strings in
\* sorted order, then None, then NaN
CategoryRank(c) ==
    IF c.k = "none" THEN Len(StrOrder) + 1
    ELSE IF c.k = "nan" THEN Len(StrOrder) + 2
    ELSE StrRank(c.s)

\* ohe.categories_[0]: the distinct cells of the set S in that order
Categories(S) ==
    [p \in 1..Cardinality(S) |->
        CHOOSE c \in S :
            Cardinality({c2 \in S : CategoryRank(c2) < CategoryRank(c)}) = p - 1]

\* the one-hot columns of col for the categories cats
OneHotColumns(col, cats) ==
    [c \in 1..Len(cats) |->
        Column(col.name \o "_" \o AsStr(cats[c]), "num",
               [i \in DOMAIN col.vals |->
                   IF col.vals[i] = cats[c] THEN Num(1) ELSE Num(0)])]

\* OneHotEncoder().fit_transform(df_proc[[col]]) under the names
\* f"{col}_{cat}": one column per category of the cells, in that order
OneHot(col) == OneHotColumns(col, Categories(Range(col.vals)))

\* the divisor of astype('int64') // 1e9
Billion == 1000000000

\* astype('int64') of NaT is the least int64, -9223372036854775808, and
\* // 1e9 makes it -9223372037.0
NaTSeconds == Dbl(TRUE, <<15621, 5893, 34>>, 0)

\* the floor of a quotient of naturals d = [q, r], negated for neg
FloorOf(neg, d) ==
    IF neg /\ Len(BigTrim(d.r)) > 0 THEN FRound(TRUE, BigAdd(d.q, <<1>>), 0)
    ELSE FRound(neg, d.q, 0)

\* x // 1e9 for a whole number x
FloorBillions(x) ==
    IF Len(x.m) = 0 THEN x
    ELSE FloorOf(x.neg, BigDivScaled(BigShl(x.m, x.e), BigOf(Billion),
                                     DivLimbs * LimbBits - BigLen(BigOf(Billion))))

\* df_proc[col].astype('int64') // 1e9: a datetime cell holds its whole
\* seconds, which is that value, and NaT gives NaTSeconds; a column that an
\* earlier step has overwritten holds whole numbers, which are divided
Seconds(col) ==
    [i \in DOMAIN col.vals |->
        IF col.dtype # "dt" THEN Val(FloorBillions(CellDbl(col.vals[i])))
        ELSE IF isna(col.vals[i]) THEN Val(NaTSeconds)
        ELSE col.vals[i]]

\* df_proc[name] = vals: a column of that name is overwritten where it
\* stands, a new column comes at the end
SetColumn(t, name, vals) ==
    IF \E j \in 1..NCols(t) : t.cols[j].name = name
    THEN [t EXCEPT !.cols =
            [j \in 1..NCols(t) |->
                IF t.cols[j].name = name THEN Column(name, "num", vals) ELSE t.cols[j]]]
    ELSE [t EXCEPT !.cols = t.cols \o <<Column(name, "num", vals)>>]

\* select_dtypes(include=['datetime', 'datetimetz']).columns
DatetimeColumns(t) == NamesAt(t, {j \in 1..NCols(t) : t.cols[j].dtype = "dt"})

\* the column of t named name
ColumnNamed(t, name) == t.cols[CHOOSE j \in 1..NCols(t) : t.cols[j].name = name]

\* step 1, for the datetime columns named in names from position i on:
\* <name>_timestamp is assigned and the column itself is dropped
RECURSIVE EncodeDatetimes(_, _, _)
EncodeDatetimes(t, names, i) ==
    IF i > Len(names) THEN t
    ELSE EncodeDatetimes(
            DropColumns(SetColumn(t, names[i] \o "_timestamp",
                                  Seconds(ColumnNamed(t, names[i]))),
                        {names[i]}),
            names, i + 1)

\* step 2 for the object columns named in cat_cols from position i on: label
\* encoding in place, or one-hot columns appended at the end
RECURSIVE EncodeCategoricals(_, _, _, _)
EncodeCategoricals(t, cat_cols, i, max_categories_for_label) ==
    IF i > Len(cat_cols) THEN t
    ELSE LET j   == CHOOSE j2 \in 1..NCols(t) : t.cols[j2].name = cat_cols[i]
             col == t.cols[j]
         IN  IF NUnique(col.vals) <= max_categories_for_label
             THEN EncodeCategoricals(
                     [t EXCEPT !.cols[j] = Column(col.name, "num", LabelEncode(col.vals))],
                     cat_cols, i + 1, max_categories_for_label)
             ELSE EncodeCategoricals(
                     [t EXCEPT !.cols = KeepIdx(t.cols, (1..NCols(t)) \ {j}) \o OneHot(col)],
                     cat_cols, i + 1, max_categories_for_label)

FSquare(x) == FMul(x, x)

\* the squares of the cells less avg, 0 in the place of a null
SquareDevs(vals, avg) ==
    SeqOf([i \in DOMAIN vals |->
        IF isna(vals[i]) THEN FZero ELSE FSquare(FSub(CellDbl(vals[i]), avg))])

\* the sum of the squared deviations from avg over cnt
MeanSquareDev(vals, avg, cnt) == FDiv(FSum(SquareDevs(vals, avg)), cnt)

\* sum / cnt of the values of a column, its nulls counting as 0
NanMean(vals, cnt) == FDiv(FSum(ZeroFilled(vals)), cnt)

\* np.nanvar of a column: the mean of the squared deviations from the mean of
\* its values, NaN (0 / 0) without a value
NanVar(vals) ==
    MeanSquareDev(vals, NanMean(vals, FInt(Len(vals) - NaCount(vals))),
                  FInt(Len(vals) - NaCount(vals)))

\* np.ptp of a column: the largest value less the smallest, NaN with a null
PeakToPeak(vals) ==
    IF NaCount(vals) > 0 THEN FNaN
    ELSE FSub(CellDbl(CHOOSE c \in Range(vals) : \A c2 \in Range(vals) : ~CellLess(c, c2)),
              CellDbl(CHOOSE c \in Range(vals) : \A c2 \in Range(vals) : ~CellLess(c2, c)))

\* np.nanmin of two doubles
NanMin(x, y) == IF x = FNaN THEN y ELSE IF y = FNaN THEN x ELSE IF FLess(y, x) THEN y ELSE x

\* variances_ of one column: at a threshold of zero the smaller of the
\* variance and the peak-to-peak
VarianceOf(vals, thr) ==
    IF thr = FZero THEN NanMin(NanVar(vals), PeakToPeak(vals)) ELSE NanVar(vals)

\* variance > threshold, false of NaN
Exceeds(v, thr) == v # FNaN /\ FLess(thr, v)

\* VarianceThreshold.get_support(): variances_ > threshold, thr being the
\* threshold as a double
VarianceKept(vals, thr) == Exceeds(VarianceOf(vals, thr), thr)

\* an n x n matrix is held row after row; the entry of row i, column j
\* (counted from 0)
At(D, n, i, j) == D[i * n + j + 1]

\* Series.rank() of cells without nulls: the average rank of ties
Rank(xs) ==
    SeqOf([i \in DOMAIN xs |->
        Float(2 * Cardinality({j \in DOMAIN xs : CellLess(xs[j], xs[i])})
              + Cardinality({j \in DOMAIN xs : xs[j] = xs[i]}) + 1, 2)])

\* pandas' nancorr, the loop over the rows for one pair of columns: i is the
\* row reached, nobs the rows taken so far
WelfordStart ==
    [i |-> 1, nobs |-> 0, meanx |-> FZero, meany |-> FZero,
     ssqdmx |-> FZero, ssqdmy |-> FZero, covxy |-> FZero]

\* ssqdmx += (vx - meanx) * dx and its like, mx and my being the new means
WelfordSums(st, vx, vy, dx, dy, mx, my) ==
    [i |-> st.i + 1, nobs |-> st.nobs + 1, meanx |-> mx, meany |-> my,
     ssqdmx |-> FAdd(st.ssqdmx, FMul(FSub(vx, mx), dx)),
     ssqdmy |-> FAdd(st.ssqdmy, FMul(FSub(vy, my), dy)),
     covxy  |-> FAdd(st.covxy, FMul(FSub(vx, mx), dy))]

\* meanx += 1 / nobs * dx and meany += 1 / nobs * dy, inv being 1 / nobs
WelfordMeans(st, vx, vy, dx, dy, inv) ==
    WelfordSums(st, vx, vy, dx, dy,
                FAdd(st.meanx, FMul(inv, dx)), FAdd(st.meany, FMul(inv, dy)))

\* one row with a value in both columns
WelfordRow(st, vx, vy) ==
    WelfordMeans(st, vx, vy, FSub(vx, st.meanx), FSub(vy, st.meany),
                 FDiv(FInt(1), FInt(st.nobs + 1)))

\* the rows from st.i on; a row with a null in either column is passed over
RECURSIVE Welford(_, _, _)
Welford(xs, ys, st) ==
    IF st.i > Len(xs) THEN st
    ELSE IF isna(xs[st.i]) \/ isna(ys[st.i])
    THEN Welford(xs, ys, [st EXCEPT !.i = @ + 1])
    ELSE Welford(xs, ys, WelfordRow(st, CellDbl(xs[st.i]), CellDbl(ys[st.i])))

\* num / divisor, NaN when the divisor is zero
CorrRatio(num, divisor) == IF divisor = FZero THEN FNaN ELSE FDiv(num, divisor)

\* covxy / sqrt(ssqdmx * ssqdmy), NaN without a row
PearsonOf(st) ==
    IF st.nobs < 1 THEN FNaN
    ELSE CorrRatio(st.covxy, FSqrt(FMul(st.ssqdmx, st.ssqdmy)))

\* pandas' nancorr_spearman, the loop over the rows for the ranks rx, ry of
\* one pair of columns, mean being (nobs + 1) / 2
SpearmanStart == [i |-> 1, sumx |-> FZero, sumxx |-> FZero, sumyy |-> FZero]

SpearmanRow(st, vx, vy) ==
    [i |-> st.i + 1, sumx |-> FAdd(st.sumx, FMul(vx, vy)),
     sumxx |-> FAdd(st.sumxx, FMul(vx, vx)), sumyy |-> FAdd(st.sumyy, FMul(vy, vy))]

RECURSIVE SpearmanSums(_, _, _, _)
SpearmanSums(rx, ry, mean, st) ==
    IF st.i > Len(rx) THEN st
    ELSE SpearmanSums(rx, ry, mean,
                      SpearmanRow(st, FSub(rx[st.i], mean), FSub(ry[st.i], mean)))

\* sumx / sqrt(sumxx * sumyy)
SpearmanOf(st) == CorrRatio(st.sumx, FSqrt(FMul(st.sumxx, st.sumyy)))

\* the coefficient of the columns x2, y2 cut to the rows where both have a
\* value, ranked again over these rows
Spearman(x2, y2) ==
    IF Len(x2) = 0 THEN FNaN
    ELSE SpearmanOf(SpearmanSums(Rank(x2), Rank(y2),
                                 FDiv(FInt(Len(x2) + 1), FInt(2)), SpearmanStart))

\* fillna(0) of one entry
FillZero(r) == IF r = FNaN THEN FZero ELSE r

\* the rows where both columns have a value
CompleteRows(xs, ys) == {i \in DOMAIN xs : ~isna(xs[i]) /\ ~isna(ys[i])}

\* one entry of df_num.corr(method=corr_method): xs is the later column of
\* the two, ys the earlier one
CorrOf(xs, ys, corr_method) ==
    IF corr_method = "spearman"
    THEN Spearman(KeepIdx(xs, CompleteRows(xs, ys)), KeepIdx(ys, CompleteRows(xs, ys)))
    ELSE PearsonOf(Welford(xs, ys, WelfordStart))

\* one entry of df_num.corr(method=corr_method).fillna(0).abs()
CorrEntry(xs, ys, corr_method) == FAbs(FillZero(CorrOf(xs, ys, corr_method)))

\* the symmetric matrix with the entries of upper above the diagonal
Mirror(upper, n) ==
    SeqOf([p \in 1..(n * n) |->
        IF (p - 1) \div n <= (p - 1) % n THEN upper[p]
        ELSE At(upper, n, (p - 1) % n, (p - 1) \div n)])

\* distance = 1 - corr with a zero diagonal, over the kept columns 0..n-1
Distance(cols, corr_method) ==
    Mirror(SeqOf([p \in 1..(Len(cols) * Len(cols)) |->
               IF (p - 1) \div Len(cols) < (p - 1) % Len(cols)
               THEN FSub(FInt(1),
                         CorrEntry(cols[((p - 1) % Len(cols)) + 1].vals,
                                   cols[((p - 1) \div Len(cols)) + 1].vals, corr_method))
               ELSE FZero]),
           Len(cols))

\* scipy's nn_chain, inner loop: best being the active cluster nearest to x
\* (the first such index on a tie), the previous element of the chain (prev,
\* -1 when there is none) is kept unless best is strictly nearer
PreferPrev(D, n, x, prev, best) ==
    IF prev >= 0 /\ ~FLess(At(D, n, x, best), At(D, n, x, prev)) THEN prev ELSE best

\* the first of the clusters in act nearest to x
FirstNearest(D, n, x, act) ==
    CHOOSE i \in act :
        \A i2 \in act : /\ ~FLess(At(D, n, x, i2), At(D, n, x, i))
                        /\ At(D, n, x, i2) = At(D, n, x, i) => i <= i2

Nearest(D, size, n, x, prev) ==
    PreferPrev(D, n, x, prev,
               FirstNearest(D, n, x, {i \in 0..(n - 1) : size[i + 1] > 0 /\ i # x}))

\* the chain grown by y, or left as it is when y is its element before the last
RECURSIVE GrowChain(_, _, _, _)
Extend(D, size, n, chain, y) ==
    IF Len(chain) > 1 /\ y = chain[Len(chain) - 1] THEN chain
    ELSE GrowChain(D, size, n, Append(chain, y))

\* the chain of nearest neighbours grown until its last two elements are
\* nearest to each other
GrowChain(D, size, n, chain) ==
    Extend(D, size, n, chain,
           Nearest(D, size, n, chain[Len(chain)],
                   IF Len(chain) > 1 THEN chain[Len(chain) - 1] ELSE -1))

\* the average-linkage update: the distance of cluster i to the union of the
\* clusters x (nx points) and y (ny points)
AverageDist(d_xi, d_yi, nx, ny) ==
    FDiv(FAdd(FMul(FInt(nx), d_xi), FMul(FInt(ny), d_yi)), FInt(nx + ny))

\* the distances once the clusters in slots x < y are merged into slot y
Merged(D, size, n, x, y) ==
    SeqOf([p \in 1..(n * n) |->
        LET i == (p - 1) \div n
            j == (p - 1) % n
        IN  IF i # j /\ i # x /\ j # x /\ size[i + 1] > 0 /\ size[j + 1] > 0
               /\ (i = y \/ j = y)
            THEN AverageDist(At(D, n, i + j - y, x), At(D, n, i + j - y, y),
                             size[x + 1], size[y + 1])
            ELSE D[p]])

\* scipy's nn_chain from merge k on: the n - 1 merges [x, y, d] in the order
\* they are found, x < y being the slots of the two clusters merged at
\* distance d; size[i + 1] is the number of points in slot i, 0 once dropped
RECURSIVE NNChain(_, _, _, _, _, _)
MergeLast(D, size, n, grown, Z, k, x, y) ==
    NNChain(Merged(D, size, n, x, y),
            [size EXCEPT ![x + 1] = 0, ![y + 1] = size[x + 1] + size[y + 1]],
            n, SubSeq(grown, 1, Len(grown) - 2),
            Append(Z, [x |-> x, y |-> y, d |-> At(D, n, x, y)]), k + 1)

\* the two clusters at the end of the grown chain are merged, the lower slot
\* being dropped
MergeChain(D, size, n, grown, Z, k) ==
    IF grown[Len(grown)] < grown[Len(grown) - 1]
    THEN MergeLast(D, size, n, grown, Z, k, grown[Len(grown)], grown[Len(grown) - 1])
    ELSE MergeLast(D, size, n, grown, Z, k, grown[Len(grown) - 1], grown[Len(grown)])

\* the first slot still in use
FirstActive(size) == CHOOSE i \in 0..(Len(size) - 1) :
                        size[i + 1] > 0 /\ \A i2 \in 0..(i - 1) : size[i2 + 1] = 0

NNChain(D, size, n, chain, Z, k) ==
    IF k = n - 1 THEN Z
    ELSE MergeChain(D, size, n,
                    GrowChain(D, size, n,
                              IF Len(chain) = 0 THEN <<FirstActive(size)>> ELSE chain),
                    Z, k)

\* Z[np.argsort(Z[:, 2], kind='mergesort')]: the merges by distance, merges
\* at the same distance keeping their order
SortMerges(Z) ==
    SeqOf([r \in DOMAIN Z |->
        Z[CHOOSE i \in DOMAIN Z :
            Cardinality({j \in DOMAIN Z : FLess(Z[j].d, Z[i].d)})
            + Cardinality({j \in 1..(i - 1) : Z[j].d = Z[i].d}) + 1 = r]])

\* scipy's label(): the merges renumbered as a tree, the r-th merge making
\* node n + r - 1 of the two nodes its clusters are at that point;
\* member[l + 1] is the node leaf l is in
RECURSIVE LabelMerges(_, _, _, _, _)
Unite(Z, n, member, r, children, a, b) ==
    LabelMerges(Z, n,
        SeqOf([l \in 1..n |-> IF member[l] \in {a, b} THEN n + r - 1 ELSE member[l]]),
        r + 1,
        Append(children, IF a < b THEN <<a, b>> ELSE <<b, a>>))

LabelMerges(Z, n, member, r, children) ==
    IF r > Len(Z) THEN children
    ELSE Unite(Z, n, member, r, children, member[Z[r].x + 1], member[Z[r].y + 1])

\* the tree of the sorted merges Z: children (pairs of nodes) and distances,
\* one entry per merge
Tree(Z, n) ==
    [children  |-> LabelMerges(Z, n, SeqOf([l \in 1..n |-> l - 1]), 1, <<>>),
     distances |-> SeqOf([r \in DOMAIN Z |-> Z[r].d])]

\* scipy.cluster.hierarchy.linkage(distance[triu], 'average')
Linkage(D, n) ==
    Tree(SortMerges(NNChain(D, SeqOf([i \in 1..n |-> 1]), n, <<>>, <<>>, 0)), n)

\* heapq._siftdown: newitem, taken from position pos (counted from 0),
\* moves towards startpos past every parent greater than it
RECURSIVE SiftDown(_, _, _, _)
SiftDown(heap, startpos, pos, newitem) ==
    IF pos > startpos /\ newitem < heap[(pos - 1) \div 2 + 1]
    THEN SiftDown([heap EXCEPT ![pos + 1] = heap[(pos - 1) \div 2 + 1]],
                  startpos, (pos - 1) \div 2, newitem)
    ELSE [heap EXCEPT ![pos + 1] = newitem]

\* the smaller child of position pos, the left one when there is no right one
SmallerChild(heap, pos) ==
    IF 2 * pos + 2 < Len(heap) /\ ~(heap[2 * pos + 2] < heap[2 * pos + 3])
    THEN 2 * pos + 2 ELSE 2 * pos + 1

\* heapq._siftup, first half: the smaller child moves up from pos to a leaf
RECURSIVE SiftUpHole(_, _)
SiftUpHole(heap, pos) ==
    IF 2 * pos + 1 < Len(heap)
    THEN SiftUpHole([heap EXCEPT ![pos + 1] = heap[SmallerChild(heap, pos) + 1]],
                    SmallerChild(heap, pos))
    ELSE [heap |-> heap, pos |-> pos]

\* heapq._siftup, second half: the item that was at pos goes down from the hole
FillHole(h, pos, newitem) == SiftDown(h.heap, pos, h.pos, newitem)

SiftUp(heap, pos) == FillHole(SiftUpHole(heap, pos), pos, heap[pos + 1])

HeapPush(heap, item) == SiftDown(Append(heap, item), 0, Len(heap), item)

\* heapq.heappushpop, the list left behind
HeapPushPop(heap, item) ==
    IF Len(heap) > 0 /\ heap[1] < item THEN SiftUp([heap EXCEPT ![1] = item], 0) ELSE heap

\* the loop of _hc_cut: the largest node is replaced by its two children,
\* `left` times
RECURSIVE SplitNodes(_, _, _, _)
SplitNodes(nodes, children, n_leaves, left) ==
    IF left = 0 THEN nodes
    ELSE SplitNodes(HeapPushPop(HeapPush(nodes, -children[-nodes[1] - n_leaves + 1][1]),
                                -children[-nodes[1] - n_leaves + 1][2]),
                    children, n_leaves, left - 1)

\* _hc_get_descendent: the leaves under a node
RECURSIVE Descendent(_, _, _)
Descendent(node, children, n_leaves) ==
    IF node < n_leaves THEN {node}
    ELSE Descendent(children[node - n_leaves + 1][1], children, n_leaves)
         \cup Descendent(children[node - n_leaves + 1][2], children, n_leaves)

\* the labels given by the heap list nodes: labels[l + 1] of leaf l is the
\* position in the list of the node it is under
LabelLeaves(nodes, children, n_leaves) ==
    SeqOf([l \in 1..n_leaves |->
        (CHOOSE i \in 1..Len(nodes) :
            (l - 1) \in Descendent(-nodes[i], children, n_leaves)) - 1])

\* max(children[-1]) + 1
Root(last) == (IF last[1] > last[2] THEN last[1] ELSE last[2]) + 1

\* _hc_cut
HcCut(n_clusters, children, n_leaves) ==
    LabelLeaves(SplitNodes(<<-Root(children[Len(children)])>>, children, n_leaves,
                           n_clusters - 1),
                children, n_leaves)

\* the number of clusters left by the cut: the merges at a distance not
\* below the threshold are undone
NClusters_inclusive(distances, distance_threshold) ==
    Cardinality({r \in DOMAIN distances : FLess(distance_threshold, distances[r])}) + 1

NClusters(distances, distance_threshold) ==
    Cardinality({r \in DOMAIN distances : ~FLess(distances[r], distance_threshold)}) + 1

\* labels_ of the tree cut at the threshold
CutTree(tree, n, distance_threshold) ==
    HcCut(NClusters(tree.distances, distance_threshold), tree.children, n)

\* AgglomerativeClustering(affinity='precomputed', linkage='average',
\* distance_threshold=..., n_clusters=None).fit(distance).labels_
ClusterLabels(D, n, distance_threshold) == CutTree(Linkage(D, n), n, distance_threshold)

\* a variant keyed by the cluster id itself: under key k the columns labelled k
Groups_keyed_by_id(names, labels) ==
    [k \in 1..Cardinality({labels[l] : l \in DOMAIN labels}) |->
        KeepIdx(names, {j \in 1..Len(names) : labels[j] = k})]

\* groups: under key k (for "group_<k>") the columns labelled k - 1, in
\* column order
Groups(names, labels) ==
    [k \in 1..Cardinality({labels[l] : l \in DOMAIN labels}) |->
        KeepIdx(names, {j \in 1..Len(names) : labels[j] = k - 1})]

\* np.finfo(np.float64).eps
Eps == Dbl(FALSE, <<1>>, -52)

\* sklearn's _incremental_mean_and_var on the first batch, for one column of
\* cnt values: new_sum and T = new_sum / cnt, which is mean_ too
ScalerSum(vals) == FSum(ZeroFilled(vals))

\* temp = X - T, 0 in the place of a null as np.nansum takes it
Deviations(vals, T) ==
    SeqOf([i \in DOMAIN vals |-> IF isna(vals[i]) THEN FZero ELSE FSub(CellDbl(vals[i]), T)])

\* new_unnormalized_variance: the sum of temp ** 2 less correction ** 2 / cnt,
\* correction being the sum of temp
Unnormalized(temp, cnt) ==
    FSub(FSum(SeqOf([i \in DOMAIN temp |-> FSquare(temp[i])])),
         FDiv(FSquare(FSum(temp)), cnt))

\* var_ of the column
ScalerVar(vals, T, cnt) == FDiv(Unnormalized(Deviations(vals, T), cnt), cnt)

\* _is_constant_feature: var <= n_samples * eps * var + (n_samples * mean * eps) ** 2
IsConstantFeature(var, mean, cnt) ==
    FLeq(var, FAdd(FMul(FMul(cnt, Eps), var), FSquare(FMul(FMul(cnt, mean), Eps))))

\* scale_: sqrt(var_), 1 for a constant column
ScaleOf(var, mean, cnt) == IF IsConstantFeature(var, mean, cnt) THEN FInt(1) ELSE FSqrt(var)

\* X -= mean_; X /= scale_ on the cells of a column; a null stays NaN
ScaleCells(vals, mean, scale) ==
    [i \in DOMAIN vals |->
        IF isna(vals[i]) THEN NaN ELSE Val(FDiv(FSub(CellDbl(vals[i]), mean), scale))]

\* the column scaled with its mean_ and var_
ScaleWith(col, mean, var, cnt) ==
    Column(col.name, "num", ScaleCells(col.vals, mean, ScaleOf(var, mean, cnt)))

ScaleAbout(col, mean, cnt) == ScaleWith(col, mean, ScalerVar(col.vals, mean, cnt), cnt)

ScaleOver(col, cnt) == ScaleAbout(col, FDiv(ScalerSum(col.vals), cnt), cnt)

\* StandardScaler().fit_transform of one column
Standardize(col) == ScaleOver(col, FInt(Len(col.vals) - NaCount(col.vals)))

\* the columns of df_num named in cols, in that order
Pick(df_num, cols) ==
    [i \in 1..Len(cols) |->
        df_num.cols[CHOOSE j \in 1..NCols(df_num) : df_num.cols[j].name = cols[i]]]

\* reduced_data[group]: df_num[cols], or its standardized copy under a fresh
\* index 0..n-1
GroupData(df_num, cols, scale) ==
    IF scale
    THEN Table([i \in 1..NRows(df_num) |-> i - 1],
               [i \in 1..Len(cols) |-> Standardize(Pick(df_num, cols)[i])])
    ELSE Table(df_num.index, Pick(df_num, cols))

\* the value None
NoneValue == [none |-> TRUE]

\* the names of the object columns
ObjectColumns(t) == NamesAt(t, {j \in 1..NCols(t) : t.cols[j].dtype = "obj"})

\* select_dtypes(include=[np.number])
NumericColumns(t) ==
    [t EXCEPT !.cols = KeepIdx(t.cols, {j \in 1..NCols(t) : t.cols[j].dtype = "num"})]

\* steps 2 and 3 on the table df_time whose object columns are cat_cols
EncodeObjects(df_time, cat_cols, max_categories_for_label) ==
    [encoded_columns |-> cat_cols,
     df_num |-> NumericColumns(EncodeCategoricals(df_time, cat_cols, 1,
                                                  max_categories_for_label))]

EncodeFrom(df_time, max_categories_for_label) ==
    EncodeObjects(df_time, ObjectColumns(df_time), max_categories_for_label)

\* steps 1 to 3: the numeric columns of the encoded copy, and the names of
\* the columns that were encoded
EncodedNumeric(t, max_categories_for_label) ==
    EncodeFrom(EncodeDatetimes(t, DatetimeColumns(t), 1), max_categories_for_label)

\* vt.get_support(): the positions of the columns kept by the variance
\* filter at the threshold thr, a double
Support(df_all, thr) ==
    {j \in 1..NCols(df_all) : VarianceKept(df_all.cols[j].vals, thr)}

\* the value returned: df_all are the numeric columns, support the positions
\* kept, df_num the columns kept, groups their groups
PcaResult(a, enc, support, df_num, groups) ==
    [groups |-> groups,
     reduced_data |->
         IF a.return_group_dfs
         THEN [k \in DOMAIN groups |-> GroupData(df_num, groups[k], a.scale)]
         ELSE NoneValue,
     dropped_low_variance |->
         {enc.df_num.cols[j].name : j \in (1..NCols(enc.df_num)) \ support},
     encoded_columns |-> enc.encoded_columns]

\* steps 5 to 9 on the kept columns df_num; clustering needs two columns
ClusterColumns(t, a, enc, support, df_num) ==
    IF NCols(df_num) < 2
    THEN [err |-> "ValueError:min_samples", caller |-> t, ret |-> NoResult]
    ELSE [err |-> "", caller |-> t,
          ret |-> PcaResult(a, enc, support, df_num,
                     Groups(ColNames(df_num),
                            ClusterLabels(Distance(df_num.cols, a.corr_method),
                                          NCols(df_num),
                                          FSub(FInt(1), a.corr_threshold))))]

\* step 4 on: the variance filter needs a row and a column, and keeps a column
RemoveLowVariance(t, a, enc, support) ==
    IF NRows(t) = 0 \/ NCols(enc.df_num) = 0
    THEN [err |-> "ValueError:no_features", caller |-> t, ret |-> NoResult]
    ELSE IF support = {}
    THEN [err |-> "ValueError:variance_threshold", caller |-> t, ret |-> NoResult]
    ELSE ClusterColumns(t, a, enc, support,
                        [enc.df_num EXCEPT !.cols = KeepIdx(enc.df_num.cols, support)])

FilterEncoded(t, a, enc) ==
    RemoveLowVariance(t, a, enc, Support(enc.df_num, a.variance_threshold))

prepare_pca_groups(t, a) ==
    FilterEncoded(t, a, EncodedNumeric(t, a.max_categories_for_label))

PreparePcaGroups(a) ==
    /\ op = "idle"
    /\ op' = "prepare_pca_groups"
    /\ args' = a
    /\ pre' = df
    /\ Returns(prepare_pca_groups(df, a))
    /\ UNCHANGED probe

-----------------------------------------------------------------------------
(* Inputs *)

NumVals == {NaN, Num(1), Num(2)}

\* 0.1 and 0.2, whose sum is no double
FillVals == {NaN, Dec(1, 10), Dec(2, 10)}

\* tables of two numeric columns "x", "y" with n rows
NullTables(n) ==
    {Table([i \in 1..n |-> i - 1], <<Column("x", "num", xs), Column("y", "num", ys)>>) :
        xs \in [1..n -> NumVals], ys \in [1..n -> {NaN, Num(1)}]}

\* 0.3, 0.34, 0.5, 1.0 and the rejected 0.0, -0.5 and the int 1
GoodThresholds == {Thr(TRUE, 3, 10), Thr(TRUE, 34, 100), Thr(TRUE, 1, 2), Thr(TRUE, 1, 1)}

BadThresholds == {Thr(TRUE, 0, 1), Thr(TRUE, -1, 2), Thr(FALSE, 1, 1)}

DropArgs ==
    [is_frame : {TRUE}, cols_to_drop : {"None", "list", "str"},
     drop_col : BOOLEAN, drop_row : BOOLEAN,
     drop_col_threshold : GoodThresholds \cup BadThresholds,
     drop_row_threshold : {Thr(TRUE, 1, 2), Thr(TRUE, 1, 1), Thr(TRUE, 0, 1)}]
    \cup
    [is_frame : {FALSE}, cols_to_drop : {"None"}, drop_col : {TRUE}, drop_row : {TRUE},
     drop_col_threshold : {Thr(TRUE, 1, 2)}, drop_row_threshold : {Thr(TRUE, 1, 2)}]

MissingArgs == [only_missing : BOOLEAN, fill : BOOLEAN, fill_func : {"None", "callable"}]

\* tables of n rows with the grouping column "PriceCategory" (its nulls NaN)
\* and a numeric column or a string column (its nulls None)
FillTables(n) ==
    {Table([i \in 1..n |-> i - 1],
           <<Column("PriceCategory", "obj", pc), Column("x", "num", xs)>>) :
        pc \in [1..n -> {NaN, Str("A"), Str("B")}], xs \in [1..n -> FillVals]}
    \cup
    {Table([i \in 1..n |-> i - 1],
           <<Column("s", "obj", ss), Column("PriceCategory", "obj", pc)>>) :
        pc \in [1..n -> {NaN, Str("A"), Str("B")}],
        ss \in [1..n -> {None, Str("a"), Str("b")}]}

\* the frame of these columns without a row
NoRowTables ==
    {Table(<<>>, <<Column("PriceCategory", "obj", <<>>), Column("x", "num", <<>>)>>)}

\* long tables of n rows: a ramp 1..n-1 closed by the value last ("a"), a
\* column with five low values, five high values and one repeated value
\* between ("f"), a column of three distinct values ("c"), strings ("s"),
\* timestamps in seconds ("t") and the category ("PriceCategory")
LongTable(n, last) ==
    Table([i \in 1..n |-> i - 1],
          <<Column("a", "num", [i \in 1..n |-> IF i = n THEN last ELSE Num(i)]),
            Column("PriceCategory", "obj",
                   [i \in 1..n |-> IF i % 2 = 0 THEN Str("A") ELSE Str("B")]),
            Column("f", "num",
                   [i \in 1..n |-> IF i <= 5 \/ i > n - 5 THEN Num(i) ELSE Num(7)]),
            Column("c", "num", [i \in 1..n |-> IF i % 4 = 0 THEN NaN ELSE Num(i % 3)]),
            Column("t", "dt", [i \in 1..n |-> Num(50 + i)]),
            Column("s", "obj", [i \in 1..n |-> IF i % 3 = 0 THEN Str("a") ELSE Str("b")])>>)

LongSizes == {10, 11, 21}

LongLast == {NaN, Num(-11), Num(-10), Num(21), Num(31), Num(32)}

LongTables == {LongTable(n, last) : n \in LongSizes, last \in LongLast}

\* the one-row tables among NullTables
ShortTables == NullTables(1)

ExcludeArgs ==
    {[kind |-> "None", items |-> {}], [kind |-> "str", items |-> {}]}
    \cup {[kind |-> "list", items |-> S] : S \in {{}, {"a"}, {"f"}, {"a", "f", "x"}, {"c", "t", "s"}}}

\* 0.5, 1.4 and 1.5
IqrConsts == {Float(1, 2), Float(7, 5), Float(3, 2)}

BoxArgs ==
    [is_frame : {TRUE}, hue : {"None", "PriceCategory", "zzz"},
     cols_to_exclude : ExcludeArgs, nr_of_plots_col : 0..2,
     iqr_const : IqrConsts, raises : {{}, {"a"}}]
    \cup
    [is_frame : {FALSE}, hue : {"None"}, cols_to_exclude : {[kind |-> "None", items |-> {}]},
     nr_of_plots_col : {1}, iqr_const : {Float(3, 2)}, raises : {{}}]

PlotArgs ==
    [is_frame : {TRUE}, hue : {"PriceCategory", "y", "a", "zzz"},
     cols_to_exclude : ExcludeArgs, nr_of_plots_col : 0..2,
     create_kde : {TRUE}, raises : {{}, {"a"}, {"f", "t", "x"}}]
    \cup
    [is_frame : {FALSE}, hue : {"y"}, cols_to_exclude : {[kind |-> "None", items |-> {}]},
     nr_of_plots_col : {1}, create_kde : {TRUE}, raises : {{}}]

InfoArgs == [remove_duplicates : BOOLEAN]

\* variance_threshold 0.01 or 1.0, label encoding up to 10 or up to 1
\* categories, corr_threshold 0.5, 0.8 or 1.0; scale is read only with
\* return_group_dfs
PcaArgs ==
    {a \in [variance_threshold : {Float(1, 100), Float(1, 1)},
            max_categories_for_label : {1, 10},
            corr_method : {"spearman", "pearson"},
            corr_threshold : {Float(1, 2), Float(4, 5), Float(1, 1)},
            scale : BOOLEAN, return_group_dfs : BOOLEAN] :
        a.scale => a.return_group_dfs}

\* the arguments of prepare_pca_groups used together with the other routines
PcaArgsBasic ==
    {a \in PcaArgs : a.corr_method = "spearman" /\ a.corr_threshold = Float(4, 5)
                       /\ a.scale /\ a.return_group_dfs}

\* the most columns of a table given to prepare_pca_groups on its own
MaxPcaCols == 3

\* four-row columns: two rankings of the rows that agree in part ("a", "b"),
\* the reverse of "a" ("d"), a constant ("k"), a column with a null and a
\* tie ("n"), strings with None and NaN ("s") and timestamps in seconds ("t")
PcaColumns ==
    <<Column("a", "num", <<Num(1), Num(2), Num(3), Num(4)>>),
      Column("b", "num", <<Num(1), Num(2), Num(4), Num(3)>>),
      Column("d", "num", <<Num(4), Num(3), Num(2), Num(1)>>),
      Column("k", "num", <<Num(2), Num(2), Num(2), Num(2)>>),
      Column("n", "num", <<NaN, Num(1), Num(3), Num(3)>>),
      Column("s", "obj", <<Str("a"), Str("b"), None, NaN>>),
      Column("t", "dt", <<Num(50), Num(53), Num(51), Num(52)>>)>>

\* the tables of one to MaxPcaCols of these columns, in this order
PcaTables ==
    {Table(<<0, 1, 2, 3>>, KeepIdx(PcaColumns, K)) :
        K \in {K2 \in SUBSET (1..Len(PcaColumns)) :
                  Cardinality(K2) \in 1..MaxPcaCols}}

\* tables with datetime columns: a NaT, a column <name>_timestamp that is
\* there already, and a datetime column of that name
TimestampTables ==
    {Table(<<0, 1, 2, 3>>,
           <<Column("t", "dt", <<Num(50), NaN, Num(51), Num(52)>>), PcaColumns[1]>>),
     Table(<<0, 1, 2, 3>>,
           <<Column("t_timestamp", "num", <<Num(1), Num(1), Num(2), Num(2)>>),
             PcaColumns[1], PcaColumns[7]>>),
     Table(<<0, 1, 2, 3>>,
           <<Column("t", "dt", <<Num(50), NaN, Num(51), Num(52)>>),
             Column("t_timestamp", "dt", <<Num(7), Num(8), Num(9), NaN>>),
             PcaColumns[2]>>)}

\* frames of one object column of n rows, None and NaN among its cells
OneColumnTables(n) ==
    {Table([i \in 1..n |-> i - 1], <<Column("s", "obj", ss)>>) :
        ss \in [1..n -> {None, NaN, Str("a")}]}

\* the arguments of custom_drop_na used together with the other routines
DropArgsBasic ==
    {a \in DropArgs :
        /\ a.drop_col_threshold \in {Thr(TRUE, 1, 2), Thr(TRUE, 0, 1)}
        /\ a.drop_row_threshold \in {Thr(TRUE, 1, 2)}
        /\ a.cols_to_drop # "str"}

BoxArgsBasic ==
    {a \in BoxArgs : a.iqr_const = Float(3, 2) /\ a.nr_of_plots_col \in 0..1
                       /\ a.cols_to_exclude.items = {}}

PlotArgsBasic ==
    {a \in PlotArgs : a.nr_of_plots_col \in 0..1 /\ a.cols_to_exclude.items = {}
                        /\ a.hue \in {"PriceCategory", "y"} /\ a.raises \in {{}, {"a"}}}

NoArgs == [none |-> TRUE]

NoProbe == [called |-> FALSE, rows |-> 0, nulls |-> 0]

LongStep == 25000

\* row counts of short and of long tables, and of a frame without rows
ProbeRows == (0..MaxRows) \cup {LongStep * m : m \in 1..MaxLong}

InitDrop ==
    /\ \E n \in 1..MaxRows : df \in NullTables(n)
    /\ op = "idle"
    /\ args = NoArgs
    /\ pre = df
    /\ ret = NoResult
    /\ err = ""
    /\ probe = NoProbe

\* the call has returned (or raised) and the caller moves on, keeping its table
Done ==
    /\ op # "idle"
    /\ op' = "idle"
    /\ args' = NoArgs
    /\ pre' = df
    /\ ret' = NoResult
    /\ err' = ""
    /\ UNCHANGED <<df, probe>>

InitMissing ==
    /\ \/ \E n \in 1..MaxRows : df \in FillTables(n) \cup NullTables(n)
       \/ df \in NoRowTables
    /\ op = "idle"
    /\ args = NoArgs
    /\ pre = df
    /\ ret = NoResult
    /\ err = ""
    /\ probe = NoProbe

NextMissing == (\E a \in MissingArgs : GetMissingFormatted(a)) \/ Done

SpecMissing == InitMissing /\ [][NextMissing]_vars

\* the summary of one column of a table of probe.rows rows, probe.nulls of them null
SummariseColumn(only_missing) ==
    LET row == SummaryRow("x", probe.nulls, probe.rows)
    IN  /\ ~probe.called
        /\ probe' = [called |-> TRUE, rows |-> probe.rows, nulls |-> probe.nulls,
                      only_missing |-> only_missing, row |-> row,
                      listed |-> ~only_missing \/ Listed(row)]
        /\ UNCHANGED <<df, op, args, pre, ret, err>>

InitSummary ==
    /\ df = Table(<<>>, <<>>)
    /\ op = "idle"
    /\ args = NoArgs
    /\ pre = df
    /\ ret = NoResult
    /\ err = ""
    /\ \E n \in ProbeRows, k \in 0..MaxNulls :
          /\ k <= n
          /\ probe = [called |-> FALSE, rows |-> n, nulls |-> k]

NextSummary == \E only_missing \in BOOLEAN : SummariseColumn(only_missing)

SpecSummary == InitSummary /\ [][NextSummary]_vars

InitGrid ==
    /\ df \in LongTables \cup ShortTables
    /\ op = "idle"
    /\ args = NoArgs
    /\ pre = df
    /\ ret = NoResult
    /\ err = ""
    /\ probe = NoProbe

NextGrid ==
    \/ \E a \in BoxArgs : Multiboxplot(a)
    \/ \E a \in PlotArgs : Multiplot(a)
    \/ \E a \in PlotArgs : MultiplotNorm(a)
    \/ Done

SpecGrid == InitGrid /\ [][NextGrid]_vars

Init ==
    /\ \/ \E n \in 1..MaxRows :
             df \in FillTables(n) \cup NullTables(n) \cup OneColumnTables(n)
       \/ df \in LongTables \cup NoRowTables \cup TimestampTables
    /\ op = "idle"
    /\ args = NoArgs
    /\ pre = df
    /\ ret = NoResult
    /\ err = ""
    /\ probe = NoProbe

Next ==
    \/ \E a \in DropArgsBasic : CustomDropNa(a)
    \/ \E a \in MissingArgs : GetMissingFormatted(a)
    \/ \E a \in InfoArgs : GetBasicInfo(a)
    \/ \E a \in BoxArgsBasic : Multiboxplot(a)
    \/ \E a \in PlotArgsBasic : Multiplot(a)
    \/ \E a \in PlotArgsBasic : MultiplotNorm(a)
    \/ \E a \in PcaArgsBasic : PreparePcaGroups(a)
    \/ Done

Spec == Init /\ [][Next]_vars

NextDrop == (\E a \in DropArgs : CustomDropNa(a)) \/ Done

InitPca ==
    /\ df \in PcaTables \cup TimestampTables
    /\ op = "idle"
    /\ args = NoArgs
    /\ pre = df
    /\ ret = NoResult
    /\ err = ""
    /\ probe = NoProbe

NextPca == (\E a \in PcaArgs : PreparePcaGroups(a)) \/ Done

SpecPca == InitPca /\ [][NextPca]_vars

SpecDrop == InitDrop /\ [][NextDrop]_vars

-----------------------------------------------------------------------------
(* Vocabulary of the properties *)

\* the integer that the double x is, for |x| < 2^31
IntOf(x) ==
    IF Len(x.m) = 0 THEN 0
    ELSE IF x.neg THEN -BigInt(BigShl(x.m, x.e), 1)
    ELSE BigInt(BigShl(x.m, x.e), 1)

Abs(x) == IF x < 0 THEN -x ELSE x

\* the last call was custom_drop_na and it returned
DropReturned == op = "custom_drop_na" /\ err = ""

HasCol(t, name) == \E j \in 1..NCols(t) : t.cols[j].name = name

ColOf(t, name) == t.cols[CHOOSE j \in 1..NCols(t) : t.cols[j].name = name]

PosOf(t, label) == CHOOSE i \in 1..NRows(t) : t.index[i] = label

CellAt(t, label, name) == ColOf(t, name).vals[PosOf(t, label)]

Labels(t) == Range(t.index)

Ascending(s) == \A a, b \in DOMAIN s : a < b => s[a] < s[b]

NoRepeat(s) == \A a, b \in DOMAIN s : a # b => s[a] # s[b]

\* the number of nulls of column name of t
NullsInCol(t, name) == Cardinality({i \in 1..NRows(t) : isna(ColOf(t, name).vals[i])})

\* the number of nulls of the row labelled label of t within the columns in names
NullsInRow(t, label, names) ==
    Cardinality({c \in names : isna(CellAt(t, label, c))})

\* the columns of t whose null fraction is >= thr
SparseCols(t, thr) ==
    {c \in Range(ColNames(t)) : NullsInCol(t, c) * thr.d >= thr.n * NRows(t)}

\* t2 holds exactly the rows labelled L and the columns named in names of t1,
\* with the values of t1, rows and columns in the order of t1
IsPart(t2, t1, L, names) ==
    /\ Labels(t2) = L
    /\ Ascending(t2.index)
    /\ Range(ColNames(t2)) = names
    /\ NoRepeat(ColNames(t2))
    /\ \A a, b \in 1..NCols(t2) :
          a < b => (CHOOSE j \in 1..NCols(t1) : t1.cols[j].name = t2.cols[a].name)
                   < (CHOOSE j \in 1..NCols(t1) : t1.cols[j].name = t2.cols[b].name)
    /\ \A j \in 1..NCols(t2) :
          /\ Len(t2.cols[j].vals) = NRows(t2)
          /\ \A i \in 1..NRows(t2) :
                t2.cols[j].vals[i] = CellAt(t1, t2.index[i], t2.cols[j].name)

-----------------------------------------------------------------------------
(* C1: custom_drop_na removes a column iff null count / row count of the
   input table is >= drop_col_threshold; cols_dropped is exactly that set of
   columns and the returned table has exactly the other columns; the 3-row
   column [1, 2, None] is kept at 0.34 and dropped at 0.3. *)
C1_ColumnsPruned ==
    DropReturned =>
        LET sparse == SparseCols(pre, args.drop_col_threshold)
        IN  /\ Range(ret.cols_dropped) = sparse
            /\ NoRepeat(ret.cols_dropped)
            /\ Range(ColNames(ret.df)) = Range(ColNames(pre)) \ sparse
            /\ NoRepeat(ColNames(ret.df))
            /\ (/\ HasCol(pre, "x")
                /\ ColOf(pre, "x").vals = <<Num(1), Num(2), NaN>>)
               => /\ args.drop_col_threshold = Thr(TRUE, 34, 100) => HasCol(ret.df, "x")
                  /\ args.drop_col_threshold = Thr(TRUE, 3, 10)
                       => "x" \in Range(ret.cols_dropped) /\ ~HasCol(ret.df, "x")

C1_Witness ==
    /\ DropReturned
    /\ ColOf(pre, "x").vals = <<Num(1), Num(2), NaN>>
    /\ args.drop_col_threshold = Thr(TRUE, 3, 10)
    /\ ret.cols_dropped = <<"x">>
    /\ ColNames(ret.df) = <<"y">>

(* C2: custom_drop_na removes a row iff its null count within the columns that
   remain after column pruning, divided by the number of remaining columns,
   is strictly greater than drop_row_threshold; the returned table and
   dropped_rows together hold every row of the column-pruned table exactly
   once, in the original order. *)
C2_RowsPruned ==
    DropReturned =>
        LET remaining == Range(ColNames(pre)) \ Range(ret.cols_dropped)
            thr       == args.drop_row_threshold
            sparse    == {l \in Labels(pre) :
                            /\ remaining # {}
                            /\ NullsInRow(pre, l, remaining) * thr.d
                                 > thr.n * Cardinality(remaining)}
        IN  /\ IsPart(ret.dropped_rows, pre, sparse, remaining)
            /\ IsPart(ret.df, pre, Labels(pre) \ sparse, remaining)
            /\ NRows(ret.df) + NRows(ret.dropped_rows) = NRows(pre)

C2_Witness ==
    /\ DropReturned
    /\ ret.cols_dropped = <<"x">>
    /\ \E l \in Labels(ret.dropped_rows) :
          ~(NullsInRow(pre, l, {"x", "y"}) * args.drop_row_threshold.d
              > args.drop_row_threshold.n * 2)
    /\ NRows(ret.df) > 0

\* the errors of the upfront parameter checks
ValidationErrors ==
    {"TypeError:df", "ValueError:empty", "ValueError:drop_col_threshold",
     "ValueError:drop_row_treshold", "TypeError:cols_to_drop"}

NonPositive(x) == x.n <= 0

NoDropOption(a) == a.cols_to_drop = "None" /\ ~a.drop_col /\ ~a.drop_row

(* C3, as stated: custom_drop_na fails with a validation error whenever a
   threshold is <= 0, and fails with the "nothing to do" error whenever no drop
   option is selected; in both cases the caller's table is unchanged. *)
C3_AsStated ==
    op = "custom_drop_na" =>
        /\ (NonPositive(args.drop_col_threshold) \/ NonPositive(args.drop_row_threshold))
              => err \in ValidationErrors /\ df = pre
        /\ NoDropOption(args) => err = "Exception:nothing" /\ df = pre

(* C3, amended: custom_drop_na fails with a validation error whenever a
   threshold is <= 0; it fails with the "nothing to do" error whenever no drop
   option is selected and the earlier checks pass (the table is a non-empty
   DataFrame and both thresholds are positive floats), and with the error of
   the first failing earlier check otherwise; in every such case the caller's
   table is unchanged. *)
C3_UpfrontFailures ==
    op = "custom_drop_na" =>
        /\ (NonPositive(args.drop_col_threshold) \/ NonPositive(args.drop_row_threshold))
              => err \in ValidationErrors /\ df = pre
        /\ NoDropOption(args)
              => /\ df = pre
                 /\ err \in ValidationErrors \cup {"Exception:nothing"}
                 /\ (/\ args.is_frame
                     /\ NRows(pre) > 0 /\ NCols(pre) > 0
                     /\ args.drop_col_threshold.isfloat /\ ~NonPositive(args.drop_col_threshold)
                     /\ args.drop_row_threshold.isfloat /\ ~NonPositive(args.drop_row_threshold))
                    => err = "Exception:nothing"

C3_Witness ==
    /\ op = "custom_drop_na"
    /\ NoDropOption(args)
    /\ err = "Exception:nothing"
    /\ \E c \in Range(ColNames(pre)) :
          NullsInCol(pre, c) * args.drop_col_threshold.d
            >= args.drop_col_threshold.n * NRows(pre)

(* C4, as stated: when custom_drop_na removes zero columns the returned table
   equals the input table. *)
C4_AsStated ==
    (DropReturned /\ ret.cols_dropped = <<>>) => ret.df = pre

(* C4, amended: when custom_drop_na removes zero columns the column step
   leaves the table unchanged: the caller's table is as before, and the
   returned table is the input table without the rows whose null fraction is
   greater than drop_row_threshold (those are in dropped_rows); it equals the
   input table when there is no such row. *)
C4_ZeroColumnsRemoved ==
    (DropReturned /\ ret.cols_dropped = <<>>) =>
        LET thr    == args.drop_row_threshold
            names  == Range(ColNames(pre))
            sparse == {l \in Labels(pre) :
                         NullsInRow(pre, l, names) * thr.d > thr.n * Cardinality(names)}
        IN  /\ df = pre
            /\ ColNames(ret.df) = ColNames(pre)
            /\ IsPart(ret.df, pre, Labels(pre) \ sparse, names)
            /\ sparse = {} => ret.df = pre

C4_Witness ==
    /\ DropReturned
    /\ ret.cols_dropped = <<>>
    /\ NCols(pre) = 2
    /\ NRows(ret.dropped_rows) = 1
    /\ NRows(ret.df) = 2

(* C5: the only routine that modifies the caller's table is the imputation
   path of get_missing_formatted: after any call to custom_drop_na,
   get_basic_info, multiboxplot, multiplot, multiplot_norm, prepare_pca_groups
   or get_missing_formatted with fill=False the caller's table has the same
   columns, rows and values as before the call. *)
C5_AsStated ==
    (\/ op \in {"custom_drop_na", "get_basic_info", "multiboxplot", "multiplot",
                 "multiplot_norm", "prepare_pca_groups"}
     \/ op = "get_missing_formatted" /\ ~args.fill)
        => df = pre

\* the same for every routine but custom_drop_na
C5_OtherRoutines ==
    (\/ op \in {"get_basic_info", "multiboxplot", "multiplot",
                 "multiplot_norm", "prepare_pca_groups"}
     \/ op = "get_missing_formatted" /\ ~args.fill)
        => df = pre

\* the last call was multiboxplot and it returned
BoxReturned == op = "multiboxplot" /\ err = ""

\* the non-null cells of column name of t
NonNull(t, name) ==
    KeepIdx(ColOf(t, name).vals, {i \in 1..NRows(t) : ~isna(ColOf(t, name).vals[i])})

\* v < q1 - k * (q3 - q1), for the cell v and the doubles q1, q3, k
BelowLowerFence(v, q1, q3, k) == FLess(CellDbl(v), FSub(q1, FMul(k, FSub(q3, q1))))

\* v > q3 + k * (q3 - q1)
AboveUpperFence(v, q1, q3, k) == FLess(FAdd(q3, FMul(k, FSub(q3, q1))), CellDbl(v))

\* v lies exactly on one of the two fences
OnFence(v, q1, q3, k) ==
    \/ CellDbl(v) = FSub(q1, FMul(k, FSub(q3, q1)))
    \/ CellDbl(v) = FAdd(q3, FMul(k, FSub(q3, q1)))

\* the rows of the pair p are the rows of t outside the fences of the
\* quartiles q1, q3 of the column
FlaggedByFences(t, p, q1, q3, k) ==
    \A l \in Labels(t) :
        /\ l \in Labels(p.rows) <=>
              /\ ~isna(CellAt(t, l, p.name))
              /\ (\/ BelowLowerFence(CellAt(t, l, p.name), q1, q3, k)
                  \/ AboveUpperFence(CellAt(t, l, p.name), q1, q3, k))
        /\ (~isna(CellAt(t, l, p.name)) /\ OnFence(CellAt(t, l, p.name), q1, q3, k))
              => l \notin Labels(p.rows)
        /\ isna(CellAt(t, l, p.name)) => l \notin Labels(p.rows)
        /\ (~isna(CellAt(t, l, p.name)) /\ q1 = q3 /\ CellDbl(CellAt(t, l, p.name)) = q1)
              => l \notin Labels(p.rows)

(* C6: in multiboxplot a row is in a column's outlier subset iff its value is
   strictly below Q1 - iqr_const*(Q3-Q1) or strictly above
   Q3 + iqr_const*(Q3-Q1), the quartiles taken over the non-null values; a
   value on a fence is no outlier, a null is never one, and with Q1 = Q3 no row
   holding that value is flagged. *)
C6_OutlierFences ==
    BoxReturned =>
        \A p \in Range(ret.value) :
            /\ ColNames(p.rows) = ColNames(pre)
            /\ IsPart(p.rows, pre, Labels(p.rows), Range(ColNames(pre)))
            /\ FlaggedByFences(pre, p, Quantile(NonNull(pre, p.name), 1, 4),
                               Quantile(NonNull(pre, p.name), 3, 4),
                               args.iqr_const)

\* some value of column p.name of t that is not null lies on a fence and
\* its row is not among the rows of p
OnFenceKept(t, p, q1, q3, k) ==
    /\ q1 # q3
    /\ \E l \in Labels(t) : isna(CellAt(t, l, p.name))
    /\ \E l \in Labels(t) :
          /\ ~isna(CellAt(t, l, p.name))
          /\ OnFence(CellAt(t, l, p.name), q1, q3, k)
          /\ l \notin Labels(p.rows)

C6_Witness ==
    /\ BoxReturned
    /\ \E p \in Range(ret.value) :
          OnFenceKept(pre, p, Quantile(NonNull(pre, p.name), 1, 4),
                      Quantile(NonNull(pre, p.name), 3, 4), args.iqr_const)
    /\ \E p \in Range(ret.value) :
          /\ Quantile(NonNull(pre, p.name), 1, 4) = Quantile(NonNull(pre, p.name), 3, 4)
          /\ NRows(p.rows) > 0
          /\ NRows(p.rows) < NRows(pre)

\* the errors of the upfront checks of the grid routines
GridUpfrontErrors ==
    {"TypeError:df", "ValueError:empty", "ValueError:nr_of_plots_col",
     "TypeError:cols_to_exclude", "ValueError:hue", "ValueError:hue_unique",
     "ValueError:no_columns"}

BoxUpfrontErrors ==
    {"TypeError:df", "ValueError:empty", "ValueError:nr_of_plots_col",
     "TypeError:cols_to_exclude"}

\* the numeric columns of the table with at least ten distinct non-null values
\* that are not excluded, in table order
QualifyingCols(t, a) ==
    LET ok == {j \in 1..NCols(t) :
                 /\ t.cols[j].dtype = "num"
                 /\ Cardinality(Range(NonNull(t, t.cols[j].name))) >= 10
                 /\ ~(a.cols_to_exclude.kind = "list"
                       /\ t.cols[j].name \in a.cols_to_exclude.items)}
    IN  KeepIdx(ColNames(t), ok)

PairNames(pairs) == [i \in 1..Len(pairs) |-> pairs[i].name]

(* C7, as stated: multiboxplot processes exactly the numeric columns with at
   least ten distinct non-null values that are not excluded, returns one pair
   per such column in table column order, and fails with a ValueError when no
   column qualifies. *)
C7_AsStated ==
    (op = "multiboxplot" /\ err \notin BoxUpfrontErrors) =>
        LET q == QualifyingCols(pre, args)
        IN  /\ q = <<>> <=> err = "ValueError:no_columns"
            /\ q # <<>> => /\ err = ""
                            /\ ret.selected = q
                            /\ PairNames(ret.value) = q

(* C7, amended: multiboxplot processes exactly the numeric columns with at
   least ten distinct non-null values that are not excluded, returns one pair
   for each such column whose box plot was drawn without error (none for a
   column whose plot raised), in table column order, and fails with a
   ValueError when no column qualifies. *)
C7_QualifyingColumns ==
    (op = "multiboxplot" /\ err \notin BoxUpfrontErrors) =>
        LET q == QualifyingCols(pre, args)
        IN  /\ q = <<>> <=> err = "ValueError:no_columns"
            /\ q # <<>> =>
                  /\ err = ""
                  /\ ret.selected = q
                  /\ [i \in 1..Len(ret.cells) |-> ret.cells[i].col] = q
                  /\ PairNames(ret.value)
                       = KeepIdx(q, {i \in 1..Len(q) : ret.cells[i].drawn = "boxplot"})

C7_Witness ==
    /\ BoxReturned
    /\ PairNames(ret.value) = <<"a", "f">>
    /\ \E j \in 1..NCols(pre) :
          /\ pre.cols[j].dtype = "num"
          /\ pre.cols[j].name \notin {"a", "f"}
    /\ Cardinality(Range(NonNull(pre, "a"))) = 10

\* the plotting library is called on the column: it holds text or numbers, or
\* fewer than ten distinct values
PlotAttempted(t, name) ==
    \/ ColOf(t, name).dtype \in {"obj", "num"}
    \/ Cardinality(Range(NonNull(t, name))) < 10

(* C8: in multiboxplot, multiplot and multiplot_norm a failure on one column is
   caught and annotated and never aborts the call: every selected column is
   processed in order, every axis index used lies within the grid of
   ceil(n / nr_of_plots_col) * nr_of_plots_col cells, the call returns
   normally, and multiboxplot still returns the pair of every column that did
   not fail. *)
C8_FailuresContained ==
    op \in {"multiboxplot", "multiplot", "multiplot_norm"} =>
        /\ err \in GridUpfrontErrors \cup {""}
        /\ err = "" =>
              LET n == Len(ret.selected)
                  c == args.nr_of_plots_col
              IN  /\ n > 0
                  /\ Len(ret.cells) = n
                  /\ ret.n_axes >= n /\ ret.n_axes % c = 0 /\ ret.n_axes - n < c
                  /\ \A i \in 1..n :
                        /\ ret.cells[i].col = ret.selected[i]
                        /\ ret.cells[i].axis = i - 1
                        /\ ret.cells[i].axis < ret.n_axes
                        /\ (/\ ret.selected[i] \in args.raises
                            /\ NullsInCol(pre, ret.selected[i]) < NRows(pre)
                            /\ PlotAttempted(pre, ret.selected[i]))
                              => ret.cells[i].drawn = "error"
                  /\ op = "multiboxplot" =>
                        /\ \A i \in 1..n :
                              ret.cells[i].drawn = "boxplot"
                                <=> (ret.selected[i] \notin args.raises
                                     /\ args.hue \in {"None"} \cup Range(ColNames(pre)))
                        /\ PairNames(ret.value)
                             = KeepIdx(ret.selected,
                                       {i \in 1..n : ret.cells[i].drawn # "error"})

C8_Witness ==
    /\ op = "multiplot"
    /\ err = ""
    /\ Len(ret.cells) = 5
    /\ ret.n_axes = 6
    /\ ret.cells[1].drawn = "error"
    /\ \A i \in 2..5 : ret.cells[i].drawn # "error"

\* the number of hundredths in the double x of two decimals
Hundredths(x) == IntOf(FRint(FMul(x, FInt(100))))

(* C9: get_missing_formatted with only_missing=True lists a column iff it has
   at least one null entry, for every table size and null count; for a listed
   column 'Missing Values Sum' is its null count and '% Missing' is
   null_count / row_count * 100 rounded to two decimals. *)
C9_AsStated ==
    (probe.called /\ probe.only_missing) =>
        /\ probe.listed <=> probe.nulls >= 1
        /\ probe.listed =>
              /\ probe.row.missing = probe.nulls
              /\ probe.row.pct = Float(Hundredths(probe.row.pct), 100)
              /\ 2 * Abs(Hundredths(probe.row.pct) * probe.rows - probe.nulls * 10000)
                    <= probe.rows

\* the last call was the default imputation on a table that has the grouping column
FillCalled ==
    /\ op = "get_missing_formatted"
    /\ args.fill /\ args.fill_func = "None"
    /\ HasCol(pre, "PriceCategory")

\* the non-missing entries of column c of t in the rows whose PriceCategory is g
GroupValues(t, c, g) ==
    KeepIdx(ColOf(t, c).vals,
            {i \in 1..NRows(t) : ColOf(t, "PriceCategory").vals[i] = g
                                  /\ ~isna(ColOf(t, c).vals[i])})

\* every missing entry of a listed column in a row with a category holds the
\* mean or mode of its group
FilledGroupwise ==
    \A r \in Range(ret) : \A i \in 1..NRows(pre) :
        LET c == r.Column
            g == ColOf(pre, "PriceCategory").vals[i]
        IN  (isna(ColOf(pre, c).vals[i]) /\ ~isna(g)) =>
                ColOf(df, c).vals[i] =
                    IF ColOf(pre, c).dtype = "num"
                    THEN Val(Mean(GroupValues(pre, c, g)))
                    ELSE Mode(GroupValues(pre, c, g))

\* every entry of a listed column that was not missing has kept its value
NonMissingKept ==
    \A r \in Range(ret) : \A i \in 1..NRows(pre) :
        ~isna(ColOf(pre, r.Column).vals[i]) =>
            ColOf(df, r.Column).vals[i] = ColOf(pre, r.Column).vals[i]

(* C10: get_missing_formatted with fill=True and no fill_func fills the
   caller's table in place group-wise: in every listed column each missing
   entry becomes the mean (numeric) or mode (non-numeric, "Unknown" without a
   mode) of the non-missing entries of its PriceCategory group, and every
   entry that was not missing keeps its value. *)
C10_AsStated ==
    FillCalled => err = "" /\ FilledGroupwise /\ NonMissingKept

\* the filling alone: it holds of every call
C10_FilledOnly ==
    FillCalled => err = "" /\ FilledGroupwise

\* the last call asked for the imputation with a fill_func of the caller
FillFuncCalled ==
    /\ op = "get_missing_formatted"
    /\ args.fill /\ args.fill_func # "None"

(* C11: get_missing_formatted with fill=True and a fill_func supplied
   completes without error and returns the summary (the missing entries
   having been filled by fill_func rather than by the mean/mode logic). *)
C11_AsStated ==
    FillFuncCalled => err = "" /\ ret = Summary(pre, args.only_missing)

\* what the call does instead: it raises, on every table, and the caller's
\* table is left as it was
C11_AlwaysRaises ==
    FillFuncCalled =>
        /\ err = IF HasCol(pre, "PriceCategory") THEN "UnboundLocalError:col"
                                                 ELSE "KeyError:PriceCategory"
        /\ df = pre

\* the last call was prepare_pca_groups and it returned
PcaReturned == op = "prepare_pca_groups" /\ err = ""

\* the numeric columns of the encoded table of the last call
EncodedCols == EncodedNumeric(pre, args.max_categories_for_label).df_num.cols

\* the retained columns: those of cols the variance filter keeps at the
\* threshold thr, a double
RetainedOf(cols, thr) ==
    KeepIdx(cols, {j \in 1..Len(cols) : VarianceKept(cols[j].vals, thr)})

RetainedCols == RetainedOf(EncodedCols, args.variance_threshold)

\* twice the average ranks of the cells xs
RankTwice(xs) ==
    [i \in DOMAIN xs |->
        2 * Cardinality({j \in DOMAIN xs : CellLess(xs[j], xs[i])})
        + Cardinality({j \in DOMAIN xs : xs[j] = xs[i]}) + 1]

\* the product of the doubles x and y, not rounded
ExactProduct(x, y) ==
    IF Len(x.m) = 0 \/ Len(y.m) = 0 THEN FZero
    ELSE Dbl(x.neg # y.neg, BigMul(x.m, y.m), x.e + y.e)

\* the points (x[j], y[j]) lie on one line through the first of them; the
\* differences of whole numbers below 2^53 are exact
Collinear(x, y) ==
    \A j, k \in DOMAIN x :
        ExactProduct(FSub(x[j], x[1]), FSub(y[k], y[1]))
            = ExactProduct(FSub(x[k], x[1]), FSub(y[j], y[1]))

\* the whole numbers x2 and y2, equally many, are perfectly correlated:
\* neither is constant and the points they make lie on one line
PerfectOn(x2, y2) ==
    /\ Len(x2) > 0
    /\ \E j \in DOMAIN x2 : x2[j] # x2[1]
    /\ \E j \in DOMAIN y2 : y2[j] # y2[1]
    /\ Collinear(x2, y2)

\* the doubles of the integers xs
AsDoubles(xs) == SeqOf([i \in DOMAIN xs |-> FInt(xs[i])])

\* the columns xs and ys are perfectly correlated over the rows where both
\* have a value, by their values (whole numbers) or by their ranks
Perfect(xs, ys, corr_method) ==
    IF corr_method = "spearman"
    THEN PerfectOn(AsDoubles(RankTwice(KeepIdx(xs, CompleteRows(xs, ys)))),
                   AsDoubles(RankTwice(KeepIdx(ys, CompleteRows(xs, ys)))))
    ELSE PerfectOn(Doubles(KeepIdx(xs, CompleteRows(xs, ys))),
                   Doubles(KeepIdx(ys, CompleteRows(xs, ys))))

\* no two different columns of cols are perfectly correlated
NoPerfectPair(cols, corr_method) ==
    \A i, j \in DOMAIN cols : i < j => ~Perfect(cols[i].vals, cols[j].vals, corr_method)

\* the positions (from 0) among the columns cols of those named in group
PositionsOf(cols, group) ==
    {j \in 0..(Len(cols) - 1) : cols[j + 1].name \in Range(group)}

\* the sum of the distances in D over the pairs in P
RECURSIVE SumDistance(_, _, _)
SumDistance(D, n, P) ==
    IF P = {} THEN FZero
    ELSE LET p == CHOOSE q \in P : TRUE
         IN  FAdd(At(D, n, p[1], p[2]), SumDistance(D, n, P \ {p}))

\* the average-linkage distance of two sets of columns: the mean of
\* 1 - |correlation| over the pairs between them
AverageLinkage(D, n, A, B) ==
    FDiv(SumDistance(D, n, A \X B), FInt(Cardinality(A) * Cardinality(B)))

\* G can be built by merging, each time, two sets at an average-linkage
\* distance below limit
RECURSIVE BuiltByMerges(_, _, _, _)
BuiltByMerges(D, n, G, limit) ==
    \/ Cardinality(G) = 1
    \/ \E A \in (SUBSET G) \ {{}, G} :
          /\ FLess(AverageLinkage(D, n, A, G \ A), limit)
          /\ BuiltByMerges(D, n, A, limit)
          /\ BuiltByMerges(D, n, G \ A, limit)

\* at corr_threshold=1.0 without a perfect pair the groups of the retained
\* columns cols are singletons, one for each column
SingletonsAtOne(cols, groups, a) ==
    (a.corr_threshold = FInt(1) /\ NoPerfectPair(cols, a.corr_method)) =>
        /\ \A k \in DOMAIN groups : Len(groups[k]) = 1
        /\ Len(groups) = Len(cols)

\* every two columns of cols that share a group are themselves at a distance
\* 1 - |correlation| below limit
PairsBelow(cols, D, groups, limit) ==
    \A k \in DOMAIN groups : \A i, j \in PositionsOf(cols, groups[k]) :
        i # j => FLess(At(D, Len(cols), i, j), limit)

\* the statement of C12 as it is worded: singleton groups at
\* corr_threshold=1.0 without a perfect pair, and two columns in one group
\* only when their own 1 - |correlation| is below 1 - corr_threshold
C12_AsStated ==
    PcaReturned =>
        /\ SingletonsAtOne(RetainedCols, ret.groups, args)
        /\ PairsBelow(RetainedCols, Distance(RetainedCols, args.corr_method),
                      ret.groups, FSub(FInt(1), args.corr_threshold))

\* the groups of the retained columns cols, D holding 1 - |correlation| of
\* every two of them: singletons at corr_threshold=1.0 without a perfect
\* pair; every group is built by merges of two sets of columns whose
\* average-linkage distance is below 1 - corr_threshold, and a group of two
\* columns holds two columns that are themselves that close
MergedBelow(cols, D, groups, a) ==
    /\ SingletonsAtOne(cols, groups, a)
    /\ \A k \in DOMAIN groups :
          /\ BuiltByMerges(D, Len(cols), PositionsOf(cols, groups[k]),
                           FSub(FInt(1), a.corr_threshold))
          /\ Len(groups[k]) = 2 =>
                \A i, j \in PositionsOf(cols, groups[k]) :
                    i # j => FLess(At(D, Len(cols), i, j),
                                   FSub(FInt(1), a.corr_threshold))

(* C12: prepare_pca_groups with corr_threshold=1.0 on a table in which no two
   retained columns are perfectly correlated returns only singleton groups,
   as many as there are retained columns; and in general two sets of columns
   are merged only when their average-linkage distance, the mean of
   1 - |correlation| over the pairs of columns between them, is below
   1 - corr_threshold, so that two columns of a larger group need not be
   that close themselves. *)
C12_MergedBelowThreshold ==
    PcaReturned =>
        MergedBelow(RetainedCols, Distance(RetainedCols, args.corr_method),
                    ret.groups, args)

\* the retained columns cols are three, two of them close and none perfectly
\* correlated
ThreeImperfect(cols, D, corr_method) ==
    /\ Len(cols) = 3
    /\ NoPerfectPair(cols, corr_method)
    /\ \E i, j \in 0..2 : i # j /\ FLess(At(D, 3, i, j), Float(1, 4))

\* three retained columns, two of them close but none perfectly correlated,
\* stay apart at corr_threshold=1.0
C12_Witness ==
    /\ PcaReturned
    /\ args.corr_threshold = FInt(1)
    /\ ThreeImperfect(RetainedCols, Distance(RetainedCols, args.corr_method),
                      args.corr_method)
    /\ Len(ret.groups) = 3
    /\ \A k \in 1..3 : Len(ret.groups[k]) = 1

\* some group of three of the columns cols holds a pair whose own distance is
\* not below limit
FarPairGrouped(cols, D, groups, limit) ==
    \E k \in DOMAIN groups :
        /\ Len(groups[k]) = 3
        /\ \E i, j \in PositionsOf(cols, groups[k]) :
              i # j /\ ~FLess(At(D, Len(cols), i, j), limit)

\* a group of three columns holding a pair whose own distance is not below
\* the threshold: the average decides
C12_AverageDecides ==
    /\ PcaReturned
    /\ FarPairGrouped(RetainedCols, Distance(RetainedCols, args.corr_method),
                      ret.groups, FSub(FInt(1), args.corr_threshold))

\* the number of places column c takes in the groups of the result
PlacesIn(groups, c) ==
    Cardinality({kp \in UNION {{<<k, p>> : p \in DOMAIN groups[k]} : k \in DOMAIN groups} :
                    groups[kp[1]][kp[2]] = c})

\* the column names found in the groups
Grouped(groups) == UNION {Range(groups[k]) : k \in DOMAIN groups}

\* the names of the columns cols
NamesOf(cols) == {cols[j].name : j \in DOMAIN cols}

\* groups and dropped split the column names: each name is dropped and in no
\* group, or in one place of one group; nothing else is grouped or dropped
\* and no group is empty
Partitions(names, groups, dropped) ==
    /\ \A c \in names : PlacesIn(groups, c) = (IF c \in dropped THEN 0 ELSE 1)
    /\ Grouped(groups) \cup dropped = names
    /\ \A k \in DOMAIN groups : Len(groups[k]) > 0

(* C13: the result of prepare_pca_groups partitions the numeric columns of
   the encoded table: each is in 'dropped_low_variance' or in exactly one
   group, never in both and never in two groups, no group is empty and
   nothing else is grouped or dropped; with return_group_dfs,
   'reduced_data' has the keys of 'groups' and each sub-table holds exactly
   the columns of its group. *)
C13_ResultPartitionsColumns ==
    PcaReturned =>
        /\ Partitions(NamesOf(EncodedCols), ret.groups,
                      ret.dropped_low_variance)
        /\ args.return_group_dfs =>
              /\ DOMAIN ret.reduced_data = DOMAIN ret.groups
              /\ \A k \in DOMAIN ret.groups :
                    ColNames(ret.reduced_data[k]) = ret.groups[k]

\* a result with a dropped column, an encoded column among the grouped ones,
\* two groups, one of them of two columns, and the sub-tables asked for
C13_Witness ==
    /\ PcaReturned
    /\ args.return_group_dfs
    /\ ret.dropped_low_variance # {}
    /\ Len(ret.groups) >= 2
    /\ \E k \in DOMAIN ret.groups : Len(ret.groups[k]) >= 2
    /\ Grouped(ret.groups) \ {pre.cols[j].name : j \in DOMAIN pre.cols} # {}
    /\ \A k \in DOMAIN ret.groups : ColNames(ret.reduced_data[k]) = ret.groups[k]

\* the arguments that differ from a at most in drop_col, drop_row and
\* cols_to_drop and pass the validation on table t
FlagVariants(t, a) ==
    {a2 \in DropArgs :
        /\ a2.is_frame = a.is_frame
        /\ a2.drop_col_threshold = a.drop_col_threshold
        /\ a2.drop_row_threshold = a.drop_row_threshold
        /\ DropValidate(t, a2) = ""}

(* C14: for a fixed table and valid thresholds the outcome of custom_drop_na
   (returned table, cols_dropped, dropped_rows) is the same for every
   combination of drop_col, drop_row and cols_to_drop that passes
   validation: the columns at or over the column threshold are removed also
   with drop_col False, the rows over the row threshold also with drop_row
   False, and a cols_to_drop list removes no column that is under the
   column threshold. *)
C14_FlagsIgnored ==
    DropReturned =>
        /\ \A a2 \in FlagVariants(pre, args) : custom_drop_na(pre, a2).ret = ret
        /\ Range(ret.cols_dropped) = SparseCols(pre, args.drop_col_threshold)
        /\ Range(ColNames(ret.df))
              = Range(ColNames(pre)) \ SparseCols(pre, args.drop_col_threshold)
        /\ \A l \in Labels(ret.df) :
              ~(NullsInRow(pre, l, Range(ColNames(ret.df))) * args.drop_row_threshold.d
                  > args.drop_row_threshold.n * NCols(ret.df))

\* a call with drop_col and drop_row False and a cols_to_drop list that
\* removed a column and a row and kept the other column
C14_Witness ==
    /\ DropReturned
    /\ ~args.drop_col
    /\ ~args.drop_row
    /\ args.cols_to_drop = "list"
    /\ Len(ret.cols_dropped) = 1
    /\ NCols(ret.df) = 1
    /\ NRows(ret.dropped_rows) > 0
    /\ NRows(ret.df) > 0
    /\ Cardinality(FlagVariants(pre, args)) = 7

====
